---- MODULE Spec2Model ----
(***************************************************************************)
(* The upload coordinator (FileUpload), the training orchestrator          *)
(* (PersonaTraining with AITrainingPipeline) and the conversation session  *)
(* (ConversationInterface) of the persona application, as state machines   *)
(* over the component state, the calls in flight and the remote store.     *)
(*                                                                         *)
(* Text is a sequence of one-character strings, so that the code's         *)
(* startsWith / includes / replace / regex tests are computed on it.       *)
(***************************************************************************)
EXTENDS Integers, Sequences, FiniteSets, TLC

(***************************************************************************)
(* Bounds of the model.                                                    *)
(***************************************************************************)
\* drops (onDrop invocations) in one run
MaxBatches == 2
\* last value of the millisecond clock
MaxClock == 1
\* uploadFile invocations in one run
MaxTasks == 2
\* mount / manual-retry probes in flight together
MaxFreeProbes == 1

(***************************************************************************)
(* Text constants of the source and sample inputs.                         *)
(***************************************************************************)
\* text: 123e4567-e89b-42d3-a456-426614174000
ValidPersonaId ==
  <<"1","2","3","e","4","5","6","7","-","e","8","9","b","-","4","2","d","3","-","a","4","5","6","-","4","2","6","6","1","4","1","7","4","0","0","0">>
\* text: 00000000-0000-0000-0000-000000000000
NilPersonaId ==
  <<"0","0","0","0","0","0","0","0","-","0","0","0","0","-","0","0","0","0","-","0","0","0","0","-","0","0","0","0","0","0","0","0","0","0","0","0">>
\* text: persona-1
MalformedPersonaId ==
  <<"p","e","r","s","o","n","a","-","1">>
\* text: a b.txt
NameSpaced ==
  <<"a"," ","b",".","t","x","t">>
\* text: a_b.txt
NameUnderscored ==
  <<"a","_","b",".","t","x","t">>
\* text: v.mp4
NameVideo ==
  <<"v",".","m","p","4">>
\* text: text/plain
MimeTextPlain ==
  <<"t","e","x","t","/","p","l","a","i","n">>
\* text: audio/mpeg
MimeAudioMpeg ==
  <<"a","u","d","i","o","/","m","p","e","g">>
\* text: video/mp4
MimeVideoMp4 ==
  <<"v","i","d","e","o","/","m","p","4">>
\* text: video/
PrefixVideo ==
  <<"v","i","d","e","o","/">>
\* text: audio/
PrefixAudio ==
  <<"a","u","d","i","o","/">>
\* text: image/
PrefixImage ==
  <<"i","m","a","g","e","/">>
\* text: text/
PrefixText ==
  <<"t","e","x","t","/">>
\* text: document
NeedleDocument ==
  <<"d","o","c","u","m","e","n","t">>
\* text: permission denied
NeedlePermissionDenied ==
  <<"p","e","r","m","i","s","s","i","o","n"," ","d","e","n","i","e","d">>
\* text: not found
NeedleNotFound ==
  <<"n","o","t"," ","f","o","u","n","d">>
\* text: Permission denied. Please check your storage bucket policies.
PermissionDeniedText ==
  <<"P","e","r","m","i","s","s","i","o","n"," ","d","e","n","i","e","d","."," ","P","l","e","a","s","e"," ","c","h","e","c","k"," ","y","o","u","r"," ","s","t","o","r","a","g","e"," ","b","u","c","k","e","t"," ","p","o","l","i","c","i","e","s",".">>
\* text: Storage bucket "persona-content" not found. Please create it manually in your Supabase dashboard under Storage > New Bucket with a 50MB file size limit.
BucketNotFoundText ==
  <<"S","t","o","r","a","g","e"," ","b","u","c","k","e","t"," ","\"","p","e","r","s","o","n","a","-","c","o","n","t","e","n","t","\""," ","n","o","t"," ","f","o","u","n","d","."," ","P","l","e","a","s","e"," ","c","r","e","a","t","e"," ","i","t"," ","m","a","n","u","a","l","l","y"," ","i","n"," ","y","o","u","r"," ","S","u","p","a","b","a","s","e"," ","d","a","s","h","b","o","a","r","d"," ","u","n","d","e","r"," ","S","t","o","r","a","g","e"," ",">"," ","N","e","w"," ","B","u","c","k","e","t"," ","w","i","t","h"," ","a"," ","5","0","M","B"," ","f","i","l","e"," ","s","i","z","e"," ","l","i","m","i","t",".">>
\* text: Storage access error: 
StorageAccessPrefix ==
  <<"S","t","o","r","a","g","e"," ","a","c","c","e","s","s"," ","e","r","r","o","r",":"," ">>
\* text: Error testing bucket access. Please check your Supabase configuration.
BucketTestErrorText ==
  <<"E","r","r","o","r"," ","t","e","s","t","i","n","g"," ","b","u","c","k","e","t"," ","a","c","c","e","s","s","."," ","P","l","e","a","s","e"," ","c","h","e","c","k"," ","y","o","u","r"," ","S","u","p","a","b","a","s","e"," ","c","o","n","f","i","g","u","r","a","t","i","o","n",".">>
\* text: File size exceeds 50MB limit. Please choose a smaller file.
FileTooLargeText ==
  <<"F","i","l","e"," ","s","i","z","e"," ","e","x","c","e","e","d","s"," ","5","0","M","B"," ","l","i","m","i","t","."," ","P","l","e","a","s","e"," ","c","h","o","o","s","e"," ","a"," ","s","m","a","l","l","e","r"," ","f","i","l","e",".">>
\* text: No valid persona selected. Please select a persona first.
NoPersonaText ==
  <<"N","o"," ","v","a","l","i","d"," ","p","e","r","s","o","n","a"," ","s","e","l","e","c","t","e","d","."," ","P","l","e","a","s","e"," ","s","e","l","e","c","t"," ","a"," ","p","e","r","s","o","n","a"," ","f","i","r","s","t",".">>
\* text: Storage bucket not available
BucketNotAvailableText ==
  <<"S","t","o","r","a","g","e"," ","b","u","c","k","e","t"," ","n","o","t"," ","a","v","a","i","l","a","b","l","e">>
\* text: Upload failed: 
UploadFailedPrefix ==
  <<"U","p","l","o","a","d"," ","f","a","i","l","e","d",":"," ">>
\* text: Upload failed
UploadFailedText ==
  <<"U","p","l","o","a","d"," ","f","a","i","l","e","d">>
\* text: Database save failed
DbSaveFailedText ==
  <<"D","a","t","a","b","a","s","e"," ","s","a","v","e"," ","f","a","i","l","e","d">>
\* text: : 
ColonSpace ==
  <<":"," ">>
\* text: : Unknown database error
UnknownDbErrorText ==
  <<":"," ","U","n","k","n","o","w","n"," ","d","a","t","a","b","a","s","e"," ","e","r","r","o","r">>
\* text:  (No rows returned - check RLS policies)
NoRowsHint ==
  <<" ","(","N","o"," ","r","o","w","s"," ","r","e","t","u","r","n","e","d"," ","-"," ","c","h","e","c","k"," ","R","L","S"," ","p","o","l","i","c","i","e","s",")">>
\* text:  (Foreign key violation - persona not found)
ForeignKeyHint ==
  <<" ","(","F","o","r","e","i","g","n"," ","k","e","y"," ","v","i","o","l","a","t","i","o","n"," ","-"," ","p","e","r","s","o","n","a"," ","n","o","t"," ","f","o","u","n","d",")">>
\* text:  (Permission denied - check RLS policies)
RlsHint ==
  <<" ","(","P","e","r","m","i","s","s","i","o","n"," ","d","e","n","i","e","d"," ","-"," ","c","h","e","c","k"," ","R","L","S"," ","p","o","l","i","c","i","e","s",")">>
\* text: Bucket not found
MsgBucketNotFound ==
  <<"B","u","c","k","e","t"," ","n","o","t"," ","f","o","u","n","d">>
\* text: Failed to fetch
MsgFailedToFetch ==
  <<"F","a","i","l","e","d"," ","t","o"," ","f","e","t","c","h">>
\* text: violates foreign key constraint
MsgForeignKey ==
  <<"v","i","o","l","a","t","e","s"," ","f","o","r","e","i","g","n"," ","k","e","y"," ","c","o","n","s","t","r","a","i","n","t">>
\* text: Key is not present in table
DetailsKeyMissing ==
  <<"K","e","y"," ","i","s"," ","n","o","t"," ","p","r","e","s","e","n","t"," ","i","n"," ","t","a","b","l","e">>
\* text: PGRST116
CodeNoRows ==
  <<"P","G","R","S","T","1","1","6">>
\* text: 23503
CodeForeignKey ==
  <<"2","3","5","0","3">>
\* text: 42501
CodeRls ==
  <<"4","2","5","0","1">>

(***************************************************************************)
(* Text helpers: String.prototype.startsWith / includes, character classes *)
(***************************************************************************)
NoText == <<>>

Truthy(s) == s # NoText

StartsWith(s, p) ==
  /\ Len(p) <= Len(s)
  /\ SubSeq(s, 1, Len(p)) = p

Includes(s, p) ==
  \E i \in 1..(Len(s) - Len(p) + 1) : SubSeq(s, i, i + Len(p) - 1) = p

Digits == {"0","1","2","3","4","5","6","7","8","9"}

LowerLetters ==
  {"a","b","c","d","e","f","g","h","i","j","k","l","m",
   "n","o","p","q","r","s","t","u","v","w","x","y","z"}

UpperLetters ==
  {"A","B","C","D","E","F","G","H","I","J","K","L","M",
   "N","O","P","Q","R","S","T","U","V","W","X","Y","Z"}

\* [0-9a-f] under the i flag
HexChars == Digits \cup {"a","b","c","d","e","f"} \cup {"A","B","C","D","E","F"}

\* [a-zA-Z0-9.-]
SafeChars == LowerLetters \cup UpperLetters \cup Digits \cup {".", "-"}

(***************************************************************************)
(* FileUpload: pure functions                                              *)
(***************************************************************************)
\* /^[0-9a-f]{8}-[0-9a-f]{4}-[1-5][0-9a-f]{3}-[89ab][0-9a-f]{3}-[0-9a-f]{12}$/i
isValidUUID(id) ==
  /\ Len(id) = 36
  /\ \A i \in {9, 14, 19, 24} : id[i] = "-"
  /\ id[15] \in {"1","2","3","4","5"}
  /\ id[20] \in {"8","9","a","b","A","B"}
  /\ \A i \in (1..36) \ {9, 14, 15, 19, 20, 24} : id[i] \in HexChars

\* an id accepted as soon as it is set
TruthyOnly(id) == Truthy(id)

\* personaId && isValidUUID(personaId)
isPersonaIdValidFor(id) == Truthy(id) /\ isValidUUID(id)

getContentType(mimeType) ==
  IF StartsWith(mimeType, PrefixVideo) THEN "video"
  ELSE IF StartsWith(mimeType, PrefixAudio) THEN "audio"
  ELSE IF StartsWith(mimeType, PrefixImage) THEN "image"
  ELSE IF StartsWith(mimeType, PrefixText) \/ Includes(mimeType, NeedleDocument) THEN "text"
  ELSE "text"

\* file.name.replace(/[^a-zA-Z0-9.-]/g, '_')
SanitizeName(name) ==
  [i \in 1..Len(name) |-> IF name[i] \in SafeChars THEN name[i] ELSE "_"]

\* `${Date.now()}-${sanitized}`: the clock value, a dash, the sanitized name.
\* The clock value is digits only, so the pair determines the string.
MakeFileId(time, name) == <<time, SanitizeName(name)>>

\* 50 * 1024 * 1024
MaxFileSize == 52428800

TooLarge(file) == file.size > MaxFileSize

\* supabase.storage.from('persona-content').getPublicUrl(filePath)
PublicUrl(path) == <<"public", "persona-content", path>>

\* The files a user can drop.
Files ==
  << [name |-> NameSpaced,      size |-> 2097152,  type |-> MimeTextPlain],
     [name |-> NameUnderscored, size |-> 52428800, type |-> MimeAudioMpeg],
     [name |-> NameVideo,       size |-> 62914560, type |-> MimeVideoMp4] >>

\* The persona identifiers the component can be mounted with.
PersonaIds == {ValidPersonaId, NilPersonaId, MalformedPersonaId, NoText}

(***************************************************************************)
(* The remote collaborators                                                *)
(***************************************************************************)
\* What the object store answers to an upload or a remove.
StorageResponses ==
  { [kind |-> "ok",     message |-> NoText],
    [kind |-> "error",  message |-> MsgBucketNotFound],
    [kind |-> "throws", message |-> MsgFailedToFetch] }

\* What the object store answers to the test upload of a probe: the above,
\* and an error result for each of the other two branches of the probe
\* text: permission denied for bucket
\* text: new row violates row-level security policy
ProbeResponses ==
  StorageResponses \cup
    { [kind |-> "error", message |->
         <<"p","e","r","m","i","s","s","i","o","n"," ","d","e","n","i","e","d"," ","f","o","r"," ","b","u","c","k","e","t">>],
      [kind |-> "error", message |->
         <<"n","e","w"," ","r","o","w"," ","v","i","o","l","a","t","e","s"," ","r","o","w","-","l","e","v","e","l"," ","s","e","c","u","r","i","t","y"," ","p","o","l","i","c","y">>] }

\* What the relational store answers to an insert(...).select().
DbResponses ==
  { [kind |-> "ok", message |-> NoText, details |-> NoText, hint |-> NoText,
     code |-> NoText],
    [kind |-> "error", message |-> MsgForeignKey, details |-> DetailsKeyMissing,
     hint |-> NoText, code |-> CodeForeignKey],
    [kind |-> "error", message |-> NoText, details |-> NoText, hint |-> NoText,
     code |-> CodeNoRows] }

\* the table the upload inserts into
UploadTable == "persona-content"

\* the table the training pipeline selects from
ContentTable == "persona_content"

TableNames == {UploadTable, ContentTable, "personas", "conversations", "messages"}

(***************************************************************************)
(* State                                                                   *)
(***************************************************************************)
VARIABLES
  \* ConversationInterface: props, React state and the promises in flight
  \* (each send and each end with the steps it has taken, in order)
  conversationType, messages, conversationId, isTyping, aiEngine,
  session, loader, sends, ends

conversationVars ==
  <<conversationType, messages, conversationId, isTyping, aiEngine,
    session, loader, sends, ends>>

VARIABLES
  \* FileUpload props and React state
  personaId, uploadedFiles, isUploading, bucketError, bucketChecked,
  \* FileUpload calls in flight: onDrop invocations, uploadFile invocations,
  \* checkAndCreateBucket invocations of the mount effect and the retry button
  batches, tasks, freeProbes,
  \* onUploadComplete invocations
  completeCalls,
  \* Date.now()
  now,
  \* the object store: the objects under the uploaded paths
  objects,
  \* the relational store: the rows of each table
  tables,
  \* every remote call onDrop and uploadFile have issued so far
  netCalls

uploadVars ==
  <<personaId, uploadedFiles, isUploading, bucketError, bucketChecked,
    batches, tasks, freeProbes, completeCalls, now, objects, tables, netCalls>>

VARIABLES
  \* PersonaTraining React state
  trainingSteps, overallProgress, isTraining, error,
  \* the pipeline call in flight: position, gathered data, analyses so far
  pipeline,
  \* runs started, callbacks delivered in the current run, onTrainingComplete calls
  runs, progressLog, trainingCompleteCalls

trainVars ==
  <<trainingSteps, overallProgress, isTraining, error, pipeline, runs,
    progressLog, trainingCompleteCalls>>

uploadOnlyVars ==
  <<uploadedFiles, isUploading, bucketError, bucketChecked, batches, tasks,
    freeProbes, completeCalls, now, objects>>

vars == <<uploadVars, trainVars, conversationVars>>

(***************************************************************************)
(* FileUpload: checkAndCreateBucket                                        *)
(***************************************************************************)
isPersonaIdValid == isPersonaIdValidFor(personaId)

\* every upload error result reported as a generic access error
BucketErrorUnclassified(message) == StorageAccessPrefix \o message

\* the message setBucketError receives for an upload error result
BucketErrorFor(message) ==
  IF Includes(message, NeedlePermissionDenied) THEN PermissionDeniedText
  ELSE IF Includes(message, NeedleNotFound) THEN BucketNotFoundText
  ELSE StorageAccessPrefix \o message

\* One run of the probe: what the test upload answers and, when that is no
\* error, what the remove answers.  Between the two awaits the probe writes
\* no state, so both answers are taken in one step.
NoCall == [kind |-> "none", message |-> NoText]

ProbeRuns ==
  {[upload |-> u, remove |-> r] :
     u \in ProbeResponses, r \in StorageResponses \cup {NoCall}}

IsProbeRun(run) ==
  /\ run \in ProbeRuns
  /\ (run.upload.kind = "ok") = (run.remove # NoCall)

\* The runs the upload coordinator is explored with: the test upload answers
\* as every other object-store call does (StorageResponses) and the remove
\* of the test object succeeds.  The probe on its own (SpecProbe) is
\* explored with every run of ProbeRuns.
UploadProbeRuns ==
  {run \in ProbeRuns : run.upload \in StorageResponses /\ run.remove.kind \in {"ok", "none"}}

\* checkAndCreateBucket's return value: the test upload gave no error and
\* nothing threw (the remove's result is not looked at)
ProbeReady(run) ==
  /\ run.upload.kind = "ok"
  /\ run.remove.kind # "throws"

\* what the probe leaves in bucketError
ProbeError(run) ==
  IF run.upload.kind = "error" THEN BucketErrorFor(run.upload.message)
  ELSE IF run.upload.kind = "throws" \/ run.remove.kind = "throws" THEN BucketTestErrorText
  ELSE NoText

\* the path of the probe's test object, `test-${Date.now()}.txt`
\* text: test-.txt
TestFileName ==
  <<"t","e","s","t","-",".","t","x","t">>

\* the object store after a probe whose test path carries this clock value
\* (the probes below take the value the clock has when they return): the
\* test upload is an upsert under the test path, and the remove takes the
\* object away again unless it answers with an error or throws
AfterProbe(objs, run, time) ==
  LET testPath == <<time, TestFileName>>
  IN IF run.upload.kind # "ok" THEN objs
     ELSE IF run.remove.kind = "ok" THEN {o \in objs : o.path # testPath}
     ELSE {o \in objs : o.path # testPath} \cup {[path |-> testPath, file |-> 0]}

\* a remote call in the log: "probe" is the test upload with the remove that
\* follows it, "transfer" the upload of a file, "insert" the metadata insert
Call(op, kind, n) == [op |-> op, by |-> kind, n |-> n]

(***************************************************************************)
(* FileUpload: uploadFile and onDrop                                       *)
(***************************************************************************)
Settled(task) == task.pc \in {"timer", "done"}

\* the catch block of uploadFile
Failed(task, message) ==
  [task EXCEPT !.pc = "done", !.status = "error", !.progress = 0, !.error = message]

\* error instanceof Error ? error.message : 'Upload failed'
CaughtText(resp) == IF resp.kind = "throws" THEN resp.message ELSE UploadFailedText

\* the message built from a dbError
DbErrorText(e) ==
  LET first == IF Truthy(e.message) THEN ColonSpace \o e.message
               ELSE IF Truthy(e.details) THEN ColonSpace \o e.details
               ELSE IF Truthy(e.hint) THEN ColonSpace \o e.hint
               ELSE UnknownDbErrorText
      hint == IF e.code = CodeNoRows THEN NoRowsHint
              ELSE IF e.code = CodeForeignKey THEN ForeignKeyHint
              ELSE IF e.code = CodeRls THEN RlsHint
              ELSE NoText
  IN DbSaveFailedText \o first \o hint

\* uploadFile up to its first await: the record, the two checks, the probe issued
UploadFileStart(time, f, b) ==
  LET rec == [batch |-> b, file |-> f, id |-> MakeFileId(time, Files[f].name),
              pc |-> "probe", probe |-> "pending",
              status |-> "uploading", progress |-> 0, url |-> NoText, error |-> NoText]
  IN IF TooLarge(Files[f]) THEN Failed([rec EXCEPT !.probe = "none"], FileTooLargeText)
     ELSE IF ~isPersonaIdValid THEN Failed([rec EXCEPT !.probe = "none"], NoPersonaText)
     ELSE rec

\* what the list shows for an entry: an entry made by onDrop is its own object,
\* an entry replaced by a result is the object uploadFile keeps mutating
EntryView(e) ==
  IF e.task = 0
  THEN [id |-> e.id, file |-> e.file, status |-> "uploading", progress |-> 0,
        url |-> NoText, error |-> NoText]
  ELSE [id |-> tasks[e.task].id, file |-> tasks[e.task].file,
        status |-> tasks[e.task].status, progress |-> tasks[e.task].progress,
        url |-> tasks[e.task].url, error |-> tasks[e.task].error]

\* results.find(r => r.id === file.id): the first result with that id, or 0
FindResult(results, tasksNew, id) ==
  LET hits == {i \in 1..Len(results) : tasksNew[results[i]].id = id}
  IN IF hits = {} THEN 0
     ELSE results[CHOOSE i \in hits : \A j \in hits : i <= j]

\* prev.map(file => results.find(r => r.id === file.id) || file)
MergeResults(list, results, tasksNew) ==
  [k \in 1..Len(list) |->
     LET r == FindResult(results, tasksNew, list[k].id)
     IN IF r = 0 THEN list[k]
        ELSE [task |-> r, id |-> tasksNew[r].id, file |-> tasksNew[r].file]]

\* results.filter(r => r.status === 'completed')
CompletedResults(results, tasksNew) ==
  SelectSeq(results, LAMBDA t : tasksNew[t].status = "completed")

\* The end of a step of batch b: when the step settled the last uploadFile
\* promise, Promise.all resolves and onDrop's continuation runs in the same
\* task: the merge, onUploadComplete, and finally setIsUploading(false).
Commit(b, batchesNew, tasksNew, listNew, upNew) ==
  /\ tasks' = tasksNew
  /\ IF /\ batchesNew[b].pc = "running"
        /\ \A i \in 1..Len(batchesNew[b].tasks) : Settled(tasksNew[batchesNew[b].tasks[i]])
     THEN /\ uploadedFiles' = MergeResults(listNew, batchesNew[b].tasks, tasksNew)
          /\ completeCalls' = Append(completeCalls,
                                [batch |-> b,
                                 files |-> CompletedResults(batchesNew[b].tasks, tasksNew)])
          /\ isUploading' = FALSE
          /\ batches' = [batchesNew EXCEPT ![b].pc = "done"]
     ELSE /\ uploadedFiles' = listNew
          /\ isUploading' = upNew
          /\ batches' = batchesNew
          /\ UNCHANGED completeCalls

\* the files of a drop that pass onDrop's size filter
ValidFiles(dropped) == SelectSeq(dropped, LAMBDA f : ~TooLarge(Files[f]))

RECURSIVE SumTo(_, _)
SumTo(f, k) == IF k = 0 THEN 0 ELSE f[k] + SumTo(f, k - 1)

\* onDrop from setIsUploading(true) on, to the first await of every uploadFile.
\* ticks[k] says whether the clock has moved since the Date.now() before the
\* k-th one of the block: the newFiles ids are read first, then one per
\* uploadFile call.  checked is bucketChecked as the block finds it.
RunUploads(b, base, checked, calls) ==
  LET valid == ValidFiles(base[b].dropped)
      n == Len(valid)
      first == Len(tasks)
  IN IF n = 0
     THEN \* setIsUploading(true); setIsUploading(false); return
          /\ isUploading' = FALSE
          /\ batches' = [base EXCEPT ![b].pc = "done", ![b].dropped = <<>>]
          /\ bucketChecked' = checked
          /\ netCalls' = calls
          /\ UNCHANGED <<uploadedFiles, tasks, completeCalls, now>>
     ELSE \E ticks \in [1..(2 * n) -> 0..1] :
          LET at(k) == now + SumTo(ticks, k)
              newFiles == [i \in 1..n |->
                             [task |-> 0, id |-> MakeFileId(at(i), Files[valid[i]].name),
                              file |-> valid[i]]]
              started == [i \in 1..n |-> UploadFileStart(at(n + i), valid[i], b)]
              probing == {i \in 1..n : started[i].pc = "probe"}
          IN /\ at(2 * n) <= MaxClock
             /\ now' = at(2 * n)
             /\ bucketChecked' = IF probing = {} THEN checked ELSE FALSE
             /\ netCalls' = calls \cup
                              {Call("probe", "task", first + i) : i \in probing}
             /\ Commit(b,
                       [base EXCEPT ![b].pc = "running", ![b].dropped = <<>>,
                                    ![b].tasks = [i \in 1..n |-> first + i]],
                       tasks \o started,
                       uploadedFiles \o newFiles,
                       TRUE)

(***************************************************************************)
(* FileUpload: the steps                                                   *)
(***************************************************************************)
\* the drop area disabled for an invalid persona id only
DropzoneIgnoringBucketError == ~isPersonaIdValid

\* disabled: !!bucketError || !isPersonaIdValid
DropzoneDisabled == Truthy(bucketError) \/ ~isPersonaIdValid

\* The batches a user drops: one file within the limit, one oversized file,
\* two files within the limit whose sanitized names agree, and a file within
\* the limit with an oversized sibling.
DropInputs == {<<1>>, <<3>>, <<1, 2>>, <<1, 3>>}

\* the uploadFile invocations made so far or still to be made by a waiting onDrop
RECURSIVE Planned(_)
Planned(k) == IF k = 0 THEN 0 ELSE Planned(k - 1) + batches[k].valid

\* The user drops files: onDrop up to its first await (the probe, when
\* bucketChecked is false) or, without a probe, through the whole block.
Drop(dropped) ==
  LET b == Len(batches) + 1
      base == Append(batches, [pc |-> "probe", dropped |-> dropped, tasks |-> <<>>,
                               valid |-> Len(ValidFiles(dropped)),
                               rejected |-> Len(dropped) - Len(ValidFiles(dropped))])
  IN /\ dropped \in DropInputs
     /\ ~DropzoneDisabled
     /\ Len(batches) < MaxBatches
     /\ Planned(Len(batches)) + Len(ValidFiles(dropped)) <= MaxTasks
     /\ IF ~isPersonaIdValid
        THEN UNCHANGED uploadVars
        ELSE IF ~bucketChecked
        THEN /\ bucketChecked' = FALSE
             /\ netCalls' = netCalls \cup {Call("probe", "batch", b)}
             /\ batches' = base
             /\ UNCHANGED <<personaId, uploadedFiles, isUploading, bucketError, tasks,
                            freeProbes, completeCalls, now, objects, tables>>
        ELSE /\ RunUploads(b, base, bucketChecked, netCalls)
             /\ UNCHANGED <<personaId, bucketError, freeProbes, objects, tables>>

\* onDrop's probe returns (its result is not looked at), and onDrop goes on
BatchProbeReturns(b, run) ==
  /\ IsProbeRun(run)
  /\ batches[b].pc = "probe"
  /\ bucketError' = ProbeError(run)
  /\ objects' = AfterProbe(objects, run, now)
  /\ RunUploads(b, batches, TRUE, netCalls)
  /\ UNCHANGED <<personaId, freeProbes, tables>>

\* uploadFile's probe returns: not ready throws, ready issues the transfer
TaskProbeReturns(t, run) ==
  /\ IsProbeRun(run)
  /\ tasks[t].pc = "probe"
  /\ bucketError' = ProbeError(run)
  /\ bucketChecked' = TRUE
  /\ IF ProbeReady(run)
     THEN /\ netCalls' = netCalls \cup {Call("transfer", "task", t)}
          /\ tasks' = [tasks EXCEPT ![t].pc = "transfer", ![t].probe = "ok"]
          /\ UNCHANGED <<uploadedFiles, isUploading, batches, completeCalls>>
     ELSE /\ UNCHANGED netCalls
          /\ Commit(tasks[t].batch, batches,
                    [tasks EXCEPT ![t] = Failed([@ EXCEPT !.probe = "failed"],
                                                BucketNotAvailableText)],
                    uploadedFiles, isUploading)
  /\ objects' = AfterProbe(objects, run, now)
  /\ UNCHANGED <<personaId, freeProbes, now, tables>>

\* the object under a path after an upsert upload of file f
Upsert(objs, path, f) ==
  {o \in objs : o.path # path} \cup {[path |-> path, file |-> f]}

\* uploadFile: the transfer answers; on success the metadata insert is issued
TransferResponds(t, resp) ==
  /\ resp \in StorageResponses
  /\ tasks[t].pc = "transfer"
  /\ IF resp.kind = "ok"
     THEN /\ objects' = Upsert(objects, tasks[t].id, tasks[t].file)
          /\ tasks' = [tasks EXCEPT ![t].pc = "insert", ![t].status = "processing",
                                    ![t].progress = 50, ![t].url = PublicUrl(tasks[t].id)]
          /\ netCalls' = netCalls \cup {Call("insert", "task", t)}
          /\ UNCHANGED <<uploadedFiles, isUploading, batches, completeCalls>>
     ELSE /\ Commit(tasks[t].batch, batches,
                    [tasks EXCEPT ![t] =
                       Failed(@, IF resp.kind = "error"
                                 THEN UploadFailedPrefix \o resp.message
                                 ELSE CaughtText(resp))],
                    uploadedFiles, isUploading)
          /\ UNCHANGED <<objects, netCalls>>
  /\ UNCHANGED <<personaId, bucketError, bucketChecked, freeProbes, now, tables>>

\* the row of dbPayload; row stands for the key the store gives the new row
ContentRow(t) ==
  [row |-> t,
   persona_id |-> personaId,
   content_type |-> getContentType(Files[tasks[t].file].type),
   file_url |-> tasks[t].url,
   file_name |-> Files[tasks[t].file].name,
   file_size |-> Files[tasks[t].file].size,
   content_text |-> NoText,
   processing_status |-> "processing"]

\* uploadFile: the insert answers; on success the 2000 ms timer is set and
\* the promise resolves
InsertResponds(t, resp) ==
  /\ resp \in DbResponses
  /\ tasks[t].pc = "insert"
  /\ IF resp.kind = "ok"
     THEN /\ tables' = [tables EXCEPT ![UploadTable] = @ \cup {ContentRow(t)}]
          /\ Commit(tasks[t].batch, batches, [tasks EXCEPT ![t].pc = "timer"],
                    uploadedFiles, isUploading)
     ELSE /\ Commit(tasks[t].batch, batches,
                    [tasks EXCEPT ![t] =
                       Failed(@, IF resp.kind = "error" THEN DbErrorText(resp)
                                 ELSE CaughtText(resp))],
                    uploadedFiles, isUploading)
          /\ UNCHANGED tables
  /\ UNCHANGED <<personaId, bucketError, bucketChecked, freeProbes, now, objects, netCalls>>

\* the setTimeout callback of uploadFile
TimerFires(t) ==
  /\ tasks[t].pc = "timer"
  /\ tasks' = [tasks EXCEPT ![t].pc = "done", ![t].status = "completed", ![t].progress = 100]
  /\ uploadedFiles' =
       [k \in 1..Len(uploadedFiles) |->
          IF uploadedFiles[k].id = tasks[t].id
          THEN [task |-> t, id |-> tasks[t].id, file |-> tasks[t].file]
          ELSE uploadedFiles[k]]
  /\ UNCHANGED <<personaId, isUploading, bucketError, bucketChecked, batches, freeProbes,
                 completeCalls, now, objects, tables, netCalls>>

\* removeFile(fileId), from the X button of a list entry
RemoveFile(k) ==
  /\ k \in 1..Len(uploadedFiles)
  /\ uploadedFiles' = SelectSeq(uploadedFiles, LAMBDA e : e.id # uploadedFiles[k].id)
  /\ UNCHANGED <<personaId, isUploading, bucketError, bucketChecked, batches, tasks,
                 freeProbes, completeCalls, now, objects, tables, netCalls>>

\* the Retry button, shown while bucketError is set: checkAndCreateBucket
RetryClick ==
  /\ Truthy(bucketError)
  /\ freeProbes < MaxFreeProbes
  /\ bucketChecked' = FALSE
  /\ freeProbes' = freeProbes + 1
  /\ UNCHANGED <<personaId, uploadedFiles, isUploading, bucketError, batches, tasks,
                 completeCalls, now, objects, tables, netCalls>>

\* the probe of the mount effect or of the Retry button returns
FreeProbeReturns(run) ==
  /\ IsProbeRun(run)
  /\ freeProbes > 0
  /\ bucketError' = ProbeError(run)
  /\ bucketChecked' = TRUE
  /\ freeProbes' = freeProbes - 1
  /\ objects' = AfterProbe(objects, run, now)
  /\ UNCHANGED <<personaId, uploadedFiles, isUploading, batches, tasks, completeCalls,
                 now, tables, netCalls>>

(***************************************************************************)
(* The upload coordinator as a system                                      *)
(***************************************************************************)
\* the row of the persona in table personas
PersonaRow ==
  [id |-> ValidPersonaId, status |-> "draft", training_progress |-> 0,
   profile |-> FALSE, prompt |-> FALSE]

\* after the first render and its mount effect: the first probe is in flight
InitUpload(content) ==
  /\ personaId \in PersonaIds
  /\ uploadedFiles = <<>>
  /\ isUploading = FALSE
  /\ bucketError = NoText
  /\ bucketChecked = FALSE
  /\ batches = <<>>
  /\ tasks = <<>>
  /\ freeProbes = 1
  /\ completeCalls = <<>>
  /\ now = 0
  /\ objects = {}
  /\ tables = [n \in TableNames |->
                 IF n = "personas" THEN {PersonaRow}
                 ELSE IF n = ContentTable THEN content ELSE {}]
  /\ netCalls = {}

NextUpload ==
  \/ \E dropped \in DropInputs : Drop(dropped) /\ UNCHANGED <<trainVars, conversationVars>>
  \/ \E b \in 1..Len(batches) : \E run \in UploadProbeRuns :
       BatchProbeReturns(b, run) /\ UNCHANGED <<trainVars, conversationVars>>
  \/ \E t \in 1..Len(tasks) : \E run \in UploadProbeRuns :
       TaskProbeReturns(t, run) /\ UNCHANGED <<trainVars, conversationVars>>
  \/ \E t \in 1..Len(tasks) : \E resp \in StorageResponses :
       TransferResponds(t, resp) /\ UNCHANGED <<trainVars, conversationVars>>
  \/ \E t \in 1..Len(tasks) : \E resp \in DbResponses :
       InsertResponds(t, resp) /\ UNCHANGED <<trainVars, conversationVars>>
  \/ \E t \in 1..Len(tasks) : TimerFires(t) /\ UNCHANGED <<trainVars, conversationVars>>
  \/ \E k \in 1..Len(uploadedFiles) : RemoveFile(k) /\ UNCHANGED <<trainVars, conversationVars>>
  \/ RetryClick /\ UNCHANGED <<trainVars, conversationVars>>
  \/ \E run \in UploadProbeRuns : FreeProbeReturns(run) /\ UNCHANGED <<trainVars, conversationVars>>

(***************************************************************************)
(* PersonaTraining: state and pure helpers                                 *)
(***************************************************************************)
\* training runs started in one behaviour
MaxRuns == 2

\* audioUrls.slice(0, 5) and imageUrls.slice(0, 10)
MaxAudioFiles == 5

MaxImages == 10

\* text: Failed to train AI persona
FailedToTrainText ==
  <<"F","a","i","l","e","d"," ","t","o"," ","t","r","a","i","n"," ","A","I"," ","p","e","r","s","o","n","a">>
\* text: hello
SampleContentText ==
  <<"h","e","l","l","o">>

StepIds ==
  << "content-analysis", "voice-modeling", "personality-extraction",
     "conversation-training", "final-optimization" >>

\* useState initial value of trainingSteps
InitialSteps ==
  [k \in 1..Len(StepIds) |-> [id |-> StepIds[k], status |-> "pending", progress |-> 0]]

\* a reset of the status that keeps the progress
ResetStatusOnly(steps) ==
  [k \in 1..Len(steps) |-> [steps[k] EXCEPT !.status = "pending"]]

\* prev.map(step => ({ ...step, status: 'pending', progress: 0 }))
ResetSteps(steps) ==
  [k \in 1..Len(steps) |-> [steps[k] EXCEPT !.status = "pending", !.progress = 0]]

\* a callback that sets the status of the named stage and not its progress
OnProgressStatusOnly(steps, stepId, progress) ==
  [k \in 1..Len(steps) |->
     IF steps[k].id = stepId
     THEN [steps[k] EXCEPT !.status = IF progress = 100 THEN "completed" ELSE "processing"]
     ELSE steps[k]]

\* a callback that also completes the stages before the named one
OnProgressUpTo(steps, stepId, progress) ==
  [k \in 1..Len(steps) |->
     IF steps[k].id = stepId
     THEN [steps[k] EXCEPT !.status = IF progress = 100 THEN "completed" ELSE "processing",
                           !.progress = progress]
     ELSE IF \E j \in (k + 1)..Len(steps) : steps[j].id = stepId
     THEN [steps[k] EXCEPT !.status = "completed", !.progress = 100]
     ELSE steps[k]]

\* the progress callback startTraining hands to the pipeline
OnProgress(steps, stepId, progress) ==
  [k \in 1..Len(steps) |->
     IF steps[k].id = stepId
     THEN [steps[k] EXCEPT !.status = IF progress = 100 THEN "completed" ELSE "processing",
                           !.progress = progress]
     ELSE steps[k]]

RECURSIVE ApplyCallbacks(_, _)
ApplyCallbacks(steps, calls) ==
  IF calls = <<>> THEN steps
  ELSE ApplyCallbacks(OnProgress(steps, Head(calls).step, Head(calls).progress), Tail(calls))

\* catch of startTraining: every step whose status is processing becomes error
MarkError(steps) ==
  [k \in 1..Len(steps) |->
     IF steps[k].status = "processing" THEN [steps[k] EXCEPT !.status = "error"]
     ELSE steps[k]]

RECURSIVE TotalProgress(_, _)
TotalProgress(steps, k) ==
  IF k = 0 THEN 0 ELSE TotalProgress(steps, k - 1) + steps[k].progress

\* a mean taken over the steps that have started
AvgOfStarted(steps) ==
  LET started == {k \in 1..Len(steps) : steps[k].status # "pending"}
  IN IF started = {} THEN 0 ELSE TotalProgress(steps, Len(steps)) \div Cardinality(started)

\* totalProgress / trainingSteps.length; every progress value the pipeline
\* reports is a multiple of 5, so the quotient of the five values is exact
AvgProgress(steps) == TotalProgress(steps, Len(steps)) \div Len(steps)

allCompleted(steps) == \A k \in 1..Len(steps) : steps[k].status = "completed"

\* one progress callback of the pipeline
Callback(stepId, progress) == [step |-> stepId, progress |-> progress]

\* the stages of AITrainingPipeline.startTraining after the gather, in order
StageOrder == <<"text", "audio", "visual", "profile">>

\* the callback startTraining issues before it calls a stage
StageCallback(stage) ==
  IF stage = "text" THEN Callback("content-analysis", 30)
  ELSE IF stage = "audio" THEN Callback("voice-modeling", 50)
  ELSE IF stage = "visual" THEN Callback("personality-extraction", 70)
  ELSE Callback("conversation-training", 85)

\* stages without the guards for an empty list
StageAlwaysHasWork(stage, data) == TRUE

\* whether a stage awaits a remote call: analyzeTextContent and
\* analyzeAudioContent return null for an empty list, the loop of
\* analyzeVisualContent has no iteration for an empty list
StageHasWork(stage, data) ==
  IF stage = "text" THEN data.text # {}
  ELSE IF stage = "audio" THEN data.audio # {}
  ELSE IF stage = "visual" THEN data.images # {}
  ELSE TRUE

Min(a, b) == IF a < b THEN a ELSE b

\* a stage that works through every item, without slice
StageItemsUncapped(stage, data) ==
  IF stage = "audio" THEN Cardinality(data.audio)
  ELSE IF stage = "visual" THEN Cardinality(data.images)
  ELSE 0

\* items a stage works through one at a time
StageItems(stage, data) ==
  IF stage = "audio" THEN Min(Cardinality(data.audio), MaxAudioFiles)
  ELSE IF stage = "visual" THEN Min(Cardinality(data.images), MaxImages)
  ELSE 0

\* a startTraining that reports progress only for the stages that have work
RECURSIVE EnterSilent(_, _)
EnterSilent(k, data) ==
  LET stage == StageOrder[k]
  IN IF StageHasWork(stage, data)
     THEN [pc |-> stage, log |-> <<StageCallback(stage)>>,
           todo |-> StageItems(stage, data)]
     ELSE EnterSilent(k + 1, data)

\* startTraining from stage number k on, up to the next remote call: the
\* callbacks issued on the way and the stage that awaits
RECURSIVE Enter(_, _)
Enter(k, data) ==
  LET stage == StageOrder[k]
  IN IF StageHasWork(stage, data)
     THEN [pc |-> stage, log |-> <<StageCallback(stage)>>,
           todo |-> StageItems(stage, data)]
     ELSE LET rest == Enter(k + 1, data)
          IN [rest EXCEPT !.log = <<StageCallback(stage)>> \o rest.log]

\* gatherTrainingData: the rows the select returns, put into their buckets
GatherBuckets(rows) ==
  [text   |-> {r \in rows : r.content_type = "text" /\ Truthy(r.content_text)},
   audio  |-> {r \in rows : r.content_type = "audio" /\ Truthy(r.file_url)},
   video  |-> {r \in rows : r.content_type = "video" /\ Truthy(r.file_url)},
   images |-> {r \in rows : r.content_type = "image" /\ Truthy(r.file_url)}]

NoData == GatherBuckets({})

\* a select without the filter on processing_status
SelectByPersona(store, id) == {r \in store[ContentTable] : r.persona_id = id}

\* .from('persona_content').select('*').eq('persona_id', ...).eq('processing_status', 'completed')
SelectContent(store, id) ==
  {r \in store[ContentTable] : r.persona_id = id /\ r.processing_status = "completed"}

\* updatePersonaStatus: .from('personas').update({ status, training_progress }).eq('id', personaId)
UpdatePersonaStatus(store, id, status, progress) ==
  [store EXCEPT !["personas"] =
     {IF r.id = id THEN [r EXCEPT !.status = status, !.training_progress = progress]
      ELSE r : r \in store["personas"]}]

\* createPersonaProfile: the update that saves the profile
SaveProfile(store, id) ==
  [store EXCEPT !["personas"] =
     {IF r.id = id
      THEN [r EXCEPT !.status = "active", !.training_progress = 100, !.profile = TRUE]
      ELSE r : r \in store["personas"]}]

\* optimizeConversationModel: the update that saves the system prompt
SavePrompt(store, id) ==
  [store EXCEPT !["personas"] =
     {IF r.id = id THEN [r EXCEPT !.prompt = TRUE] ELSE r : r \in store["personas"]}]

\* the answers of the relational store and of the completion API
RemoteKinds == {"ok", "error", "throws"}

CompletionKinds == {"json", "malformed", "throws"}

TranscriptionKinds == {"ok", "throws"}

VisionKinds == {"ok", "empty", "throws"}

IdlePipeline ==
  [pc |-> "idle", data |-> NoData, todo |-> 0, transcriptions |-> 0,
   expressions |-> 0, textAnalysis |-> "null", voiceAnalysis |-> "null"]

(***************************************************************************)
(* PersonaTraining: the effect, startTraining and the pipeline             *)
(***************************************************************************)
\* useEffect on [trainingSteps, isTraining]: the state the component shows
\* once the effect has run after a render with these steps and this flag
AfterRender(steps, training, calls, store) ==
  LET done == allCompleted(steps) /\ training
  IN [overall   |-> AvgProgress(steps),
      training  |-> training /\ ~done,
      completes |-> done,
      calls     |-> IF done THEN calls \cup {Call("persona-update", "training", runs)}
                    ELSE calls,
      store     |-> IF done THEN UpdatePersonaStatus(store, personaId, "active", 100)
                    ELSE store]

\* a state update of the component followed by its effect; `finally` is
\* FALSE where the finally block of startTraining sets isTraining to false
Rendered(steps, training, finally, calls, store) ==
  LET r == AfterRender(steps, training, calls, store)
  IN /\ trainingSteps' = steps
     /\ overallProgress' = r.overall
     /\ isTraining' = (r.training /\ finally)
     /\ trainingCompleteCalls' = trainingCompleteCalls + (IF r.completes THEN 1 ELSE 0)
     /\ netCalls' = r.calls
     /\ tables' = r.store

\* a start button that is offered whatever the component shows
StartTrainingAnytime ==
  /\ runs < MaxRuns
  /\ runs' = runs + 1
  /\ error' = NoText
  /\ pipeline' = [IdlePipeline EXCEPT !.pc = "status"]
  /\ progressLog' = <<>>
  /\ Rendered(trainingSteps, TRUE, TRUE,
              netCalls \cup {Call("persona-update", "training", runs + 1)}, tables)

\* the Start AI Training button: startTraining up to its first await
StartTraining ==
  /\ ~isTraining
  /\ overallProgress = 0
  /\ runs < MaxRuns
  /\ runs' = runs + 1
  /\ error' = NoText
  /\ pipeline' = [IdlePipeline EXCEPT !.pc = "status"]
  /\ progressLog' = <<>>
  /\ Rendered(trainingSteps, TRUE, TRUE,
              netCalls \cup {Call("persona-update", "training", runs + 1)}, tables)

\* updatePersonaStatus('training', 0) has returned, whatever its result: the
\* steps are reset, the pipeline is built and started, and it selects the content
StatusResponds(kind) ==
  /\ kind \in RemoteKinds
  /\ pipeline.pc = "status"
  /\ LET store == IF kind = "ok" THEN UpdatePersonaStatus(tables, personaId, "training", 0)
                  ELSE tables
         log == <<Callback("content-analysis", 10)>>
     IN /\ pipeline' = [pipeline EXCEPT !.pc = "gather"]
        /\ progressLog' = log
        /\ Rendered(ApplyCallbacks(ResetSteps(trainingSteps), log), isTraining, TRUE,
                    netCalls \cup {Call("content-select", "training", runs)}, store)
  /\ UNCHANGED <<error, runs>>

\* The callback on its own: while the pipeline call is pending, the closure
\* handed to it is invoked with any stepId and progress.
CallbackStepIds == {StepIds[k] : k \in 1..Len(StepIds)} \cup {"unknown-step"}

CallbackValues == {0, 50, 100}

ProgressCallback(stepId, progress) ==
  /\ stepId \in CallbackStepIds
  /\ progress \in CallbackValues
  /\ pipeline.pc = "gather"
  /\ Rendered(OnProgress(trainingSteps, stepId, progress), isTraining, TRUE,
              netCalls, tables)
  /\ UNCHANGED <<error, runs, pipeline, progressLog>>

\* the pipeline throws 'Failed to train AI persona': catch and finally of
\* startTraining
TrainingFails(calls, store) ==
  /\ pipeline' = [pipeline EXCEPT !.pc = "failed"]
  /\ error' = FailedToTrainText
  /\ Rendered(MarkError(trainingSteps), isTraining, FALSE, calls, store)
  /\ UNCHANGED <<runs, progressLog>>

\* the remote call a stage awaits first
StageCall(stage) ==
  IF stage = "text" THEN "text-completion"
  ELSE IF stage = "audio" THEN "transcription"
  ELSE IF stage = "visual" THEN "vision-completion"
  ELSE "profile-completion"

\* AITrainingPipeline.startTraining goes on with stage number k
Proceed(k, p, store) ==
  LET e == Enter(k, p.data)
  IN /\ pipeline' = [p EXCEPT !.pc = e.pc, !.todo = e.todo]
     /\ progressLog' = progressLog \o e.log
     /\ Rendered(ApplyCallbacks(trainingSteps, e.log), isTraining, TRUE,
                 netCalls \cup {Call(StageCall(e.pc), "training", runs)}, store)
     /\ UNCHANGED <<error, runs>>

\* gatherTrainingData: the select answers
GatherResponds(kind) ==
  /\ kind \in RemoteKinds
  /\ pipeline.pc = "gather"
  /\ IF kind = "ok"
     THEN Proceed(1, [pipeline EXCEPT
                        !.data = GatherBuckets(SelectContent(tables, personaId))],
                  tables)
     ELSE TrainingFails(netCalls, tables)

\* analyzeTextContent: the completion answers
TextResponds(kind) ==
  /\ kind \in CompletionKinds
  /\ pipeline.pc = "text"
  /\ IF kind = "throws" THEN TrainingFails(netCalls, tables)
     ELSE Proceed(2, [pipeline EXCEPT
                        !.textAnalysis = IF kind = "json" THEN "json" ELSE "marker"],
                  tables)

\* analyzeAudioContent: download and transcription of one file are over
TranscriptionResponds(kind) ==
  /\ kind \in TranscriptionKinds
  /\ pipeline.pc = "audio"
  /\ LET p == [pipeline EXCEPT
                 !.todo = @ - 1,
                 !.transcriptions = @ + (IF kind = "ok" THEN 1 ELSE 0)]
     IN IF p.todo > 0
        THEN /\ pipeline' = p
             /\ Rendered(trainingSteps, isTraining, TRUE,
                         netCalls \cup {Call("transcription", "training", runs)}, tables)
             /\ UNCHANGED <<error, runs, progressLog>>
        ELSE IF p.transcriptions = 0
        THEN Proceed(3, p, tables)
        ELSE /\ pipeline' = [p EXCEPT !.pc = "speech"]
             /\ Rendered(trainingSteps, isTraining, TRUE,
                         netCalls \cup {Call("speech-completion", "training", runs)}, tables)
             /\ UNCHANGED <<error, runs, progressLog>>

\* analyzeAudioContent: the completion over the transcriptions answers
SpeechResponds(kind) ==
  /\ kind \in CompletionKinds
  /\ pipeline.pc = "speech"
  /\ IF kind = "throws" THEN TrainingFails(netCalls, tables)
     ELSE Proceed(3, [pipeline EXCEPT
                        !.voiceAnalysis = IF kind = "json" THEN "json" ELSE "marker"],
                  tables)

\* analyzeVisualContent: the completion for one image answers
VisionResponds(kind) ==
  /\ kind \in VisionKinds
  /\ pipeline.pc = "visual"
  /\ LET p == [pipeline EXCEPT
                 !.todo = @ - 1,
                 !.expressions = @ + (IF kind = "ok" THEN 1 ELSE 0)]
     IN IF p.todo > 0
        THEN /\ pipeline' = p
             /\ Rendered(trainingSteps, isTraining, TRUE,
                         netCalls \cup {Call("vision-completion", "training", runs)}, tables)
             /\ UNCHANGED <<error, runs, progressLog>>
        ELSE Proceed(4, p, tables)

\* a createPersonaProfile that saves whatever text the completion returns
ProfileRespondsUnparsed(kind) ==
  /\ kind \in CompletionKinds
  /\ pipeline.pc = "profile"
  /\ IF kind # "throws"
     THEN /\ pipeline' = [pipeline EXCEPT !.pc = "save"]
          /\ Rendered(trainingSteps, isTraining, TRUE,
                      netCalls \cup {Call("profile-save", "training", runs)}, tables)
          /\ UNCHANGED <<error, runs, progressLog>>
     ELSE TrainingFails(netCalls, tables)

\* createPersonaProfile: the completion answers; its text is parsed and the
\* update that saves the profile is sent
ProfileResponds(kind) ==
  /\ kind \in CompletionKinds
  /\ pipeline.pc = "profile"
  /\ IF kind = "json"
     THEN /\ pipeline' = [pipeline EXCEPT !.pc = "save"]
          /\ Rendered(trainingSteps, isTraining, TRUE,
                      netCalls \cup {Call("profile-save", "training", runs)}, tables)
          /\ UNCHANGED <<error, runs, progressLog>>
     ELSE TrainingFails(netCalls, tables)

\* createPersonaProfile: the update answers; its result is not looked at
SaveResponds(kind) ==
  /\ kind \in RemoteKinds
  /\ pipeline.pc = "save"
  /\ IF kind = "throws" THEN TrainingFails(netCalls, tables)
     ELSE LET log == <<Callback("final-optimization", 95)>>
          IN /\ pipeline' = [pipeline EXCEPT !.pc = "optimize"]
             /\ progressLog' = progressLog \o log
             /\ Rendered(ApplyCallbacks(trainingSteps, log), isTraining, TRUE,
                         netCalls \cup {Call("prompt-save", "training", runs)},
                         IF kind = "ok" THEN SaveProfile(tables, personaId) ELSE tables)
             /\ UNCHANGED <<error, runs>>

\* optimizeConversationModel: the update answers; the pipeline returns the
\* profile and startTraining runs its finally block
OptimizeResponds(kind) ==
  /\ kind \in RemoteKinds
  /\ pipeline.pc = "optimize"
  /\ IF kind = "throws" THEN TrainingFails(netCalls, tables)
     ELSE LET log == <<Callback("final-optimization", 100)>>
          IN /\ pipeline' = [pipeline EXCEPT !.pc = "succeeded"]
             /\ progressLog' = progressLog \o log
             /\ Rendered(ApplyCallbacks(trainingSteps, log), isTraining, FALSE, netCalls,
                         IF kind = "ok" THEN SavePrompt(tables, personaId) ELSE tables)
             /\ UNCHANGED <<error, runs>>

\* the Try Again button of the error box
TryAgain ==
  /\ Truthy(error)
  /\ error' = NoText
  /\ Rendered(ResetSteps(trainingSteps), isTraining, TRUE, netCalls, tables)
  /\ UNCHANGED <<pipeline, runs, progressLog>>

\* what no step of the training component writes
trainingFrame == <<personaId, uploadOnlyVars, conversationVars>>

NextTraining ==
  \/ StartTraining /\ UNCHANGED trainingFrame
  \/ \E kind \in RemoteKinds : StatusResponds(kind) /\ UNCHANGED trainingFrame
  \/ \E kind \in RemoteKinds : GatherResponds(kind) /\ UNCHANGED trainingFrame
  \/ \E kind \in CompletionKinds : TextResponds(kind) /\ UNCHANGED trainingFrame
  \/ \E kind \in TranscriptionKinds :
       TranscriptionResponds(kind) /\ UNCHANGED trainingFrame
  \/ \E kind \in CompletionKinds : SpeechResponds(kind) /\ UNCHANGED trainingFrame
  \/ \E kind \in VisionKinds : VisionResponds(kind) /\ UNCHANGED trainingFrame
  \/ \E kind \in CompletionKinds : ProfileResponds(kind) /\ UNCHANGED trainingFrame
  \/ \E kind \in RemoteKinds : SaveResponds(kind) /\ UNCHANGED trainingFrame
  \/ \E kind \in RemoteKinds : OptimizeResponds(kind) /\ UNCHANGED trainingFrame
  \/ TryAgain /\ UNCHANGED trainingFrame

(***************************************************************************)
(* ConversationInterface                                                   *)
(***************************************************************************)
\* sendMessage invocations in one session
MaxSends == 2

\* clicks on an end button in one session
MaxEnds == 1

\* text: I'm still learning about this persona. Please complete the AI training for more personalized responses.
FallbackReply ==
  <<"I","'","m"," ","s","t","i","l","l"," ","l","e","a","r","n","i","n","g"," ","a","b","o","u","t"," ","t","h","i","s"," ","p","e","r","s","o","n","a","."," ","P","l","e","a","s","e"," ","c","o","m","p","l","e","t","e"," ","t","h","e"," ","A","I"," ","t","r","a","i","n","i","n","g"," ","f","o","r"," ","m","o","r","e"," ","p","e","r","s","o","n","a","l","i","z","e","d"," ","r","e","s","p","o","n","s","e","s",".">>




\* the generic greeting for personaName Ann
\* text: Hello! I'm still learning about Ann. Please complete the AI training first for more personalized conversations.
GenericGreeting ==
  <<"H","e","l","l","o","!"," ","I","'","m"," ","s","t","i","l","l"," ","l","e","a","r","n","i","n","g"," ","a","b","o","u","t"," ","A","n","n","."," ","P","l","e","a","s","e"," ","c","o","m","p","l","e","t","e"," ","t","h","e"," ","A","I"," ","t","r","a","i","n","i","n","g"," ","f","i","r","s","t"," ","f","o","r"," ","m","o","r","e"," ","p","e","r","s","o","n","a","l","i","z","e","d"," ","c","o","n","v","e","r","s","a","t","i","o","n","s",".">>

\* text: ok (what a loaded engine answers; the engine is outside the sources)
EngineReplyText == <<"o","k">>

\* what the user types before sending: hi, and one blank
UserTexts == {<<"h","i">>, <<" ">>}

\* inputMessage.trim()
Trim(text) ==
  LET inked == {i \in 1..Len(text) : text[i] # " "}
  IN IF inked = {} THEN NoText
     ELSE SubSeq(text, CHOOSE i \in inked : \A j \in inked : i <= j,
                       CHOOSE i \in inked : \A j \in inked : j <= i)

\* a Message of the local transcript; id is '1' for the greeting and a clock
\* reading for the others
Message(fromClock, n, sender, content, time) ==
  [id |-> [clock |-> fromClock, n |-> n], sender_type |-> sender,
   content |-> content, timestamp |-> time, message_type |-> "text"]

\* the record inserted into table messages
MessageRow(sender, content) ==
  [id |-> Cardinality(tables["messages"]) + 1, conversation_id |-> conversationId,
   sender_type |-> sender, content |-> content, message_type |-> "text"]

\* the store after an insert or update answered kind
StoreAfter(kind, name, rows) ==
  IF kind = "ok" THEN [tables EXCEPT ![name] = rows] ELSE tables

\* a generatePersonaResponse that asks the engine whether loaded or not
UsesEngineAlways(send) == TRUE

\* if (aiEngine), with the aiEngine of the render that created sendMessage
UsesEngine(send) == send.engine

\* the state after the first render and its mount effect: the insert of the
\* session record and loadTrainedPersona are in flight
InitConversation(type) ==
  /\ conversationType = type
  /\ messages = <<>>
  /\ conversationId = 0
  /\ isTyping = FALSE
  /\ aiEngine = FALSE
  /\ session = "creating"
  /\ loader = "loading"
  /\ sends = <<>>
  /\ ends = <<>>

\* initializeConversation: the insert of the session record answers
SessionResponds(kind) ==
  /\ session = "creating"
  /\ kind \in RemoteKinds
  /\ IF kind = "ok"
     THEN /\ conversationId' = 1
          /\ session' = "created"
          /\ tables' = [tables EXCEPT !["conversations"] =
                          @ \cup {[id |-> 1, persona_id |-> personaId,
                                   conversation_type |-> conversationType,
                                   started_at |-> now, ended |-> FALSE,
                                   duration_seconds |-> 0]}]
     ELSE /\ session' = "failed"
          /\ UNCHANGED <<conversationId, tables>>
  /\ UNCHANGED <<conversationType, messages, isTyping, aiEngine, loader,
                 sends, ends, now>>

\* loadAIEngine: loadTrainedPersona answers; without an engine the generic
\* greeting becomes the transcript
EngineLoads(kind, t) ==
  /\ loader = "loading"
  /\ kind \in {"engine", "none", "throws"}
  /\ t \in now..MaxClock
  /\ now' = t
  /\ aiEngine' = (kind = "engine")
  /\ loader' = CASE kind = "engine" -> "greeting"
                 [] kind = "none" -> "done"
                 [] OTHER -> "failed"
  /\ messages' = IF kind = "none"
                 THEN <<Message(FALSE, 1, "persona", GenericGreeting, t)>>
                 ELSE messages
  /\ UNCHANGED <<conversationType, conversationId, isTyping, session, sends,
                 ends, tables>>

\* loadAIEngine: the engine's greeting answers and becomes the transcript
GreetingResponds(kind, t) ==
  /\ loader = "greeting"
  /\ kind \in {"ok", "throws"}
  /\ t \in now..MaxClock
  /\ now' = t
  /\ loader' = IF kind = "ok" THEN "done" ELSE "failed"
  /\ messages' = IF kind = "ok"
                 THEN <<Message(FALSE, 1, "persona", EngineReplyText, t)>>
                 ELSE messages
  /\ UNCHANGED <<conversationType, conversationId, isTyping, aiEngine, session,
                 sends, ends, tables>>

\* sendMessage up to its first await: the user's message is appended, the
\* indicator set and the insert of the message sent
SendMessage(text, t) ==
  /\ text \in UserTexts
  /\ t \in now..MaxClock
  /\ Len(sends) < MaxSends
  /\ IF Trim(text) = NoText \/ conversationId = 0
     THEN UNCHANGED <<messages, isTyping, sends, now>>
     ELSE LET userMessage == Message(TRUE, t, "user", text, t)
          IN /\ messages' = Append(messages, userMessage)
             /\ isTyping' = TRUE
             /\ sends' = Append(sends,
                           [pc |-> "persistUser", message |-> userMessage,
                            engine |-> aiEngine, reply |-> NoText,
                            userStored |-> FALSE, replyStored |-> FALSE,
                            steps |-> <<"append-user", "insert-user">>])
             /\ now' = t
  /\ UNCHANGED <<conversationType, conversationId, aiEngine, session, loader,
                 ends, tables>>

\* sendMessage lines 142-160: the reply is appended, the indicator cleared
\* and the insert of the reply sent
Reply(s, text, t, store, send) ==
  /\ messages' = Append(messages, Message(TRUE, t + 1, "persona", text, t))
  /\ isTyping' = FALSE
  /\ sends' = [sends EXCEPT ![s] =
                [send EXCEPT !.pc = "persistReply", !.reply = text,
                             !.steps = @ \o <<"append-reply", "insert-reply">>]]
  /\ tables' = store
  /\ now' = t

\* the catch block of sendMessage
SendFails(s) ==
  /\ isTyping' = FALSE
  /\ sends' = [sends EXCEPT ![s].pc = "failed"]
  /\ UNCHANGED <<messages, tables, now>>

\* the insert of the user's message answers; the reply is then asked of the
\* engine, or is the fallback text at once
UserPersistResponds(s, kind, t) ==
  /\ s \in 1..Len(sends)
  /\ sends[s].pc = "persistUser"
  /\ kind \in RemoteKinds
  /\ t \in now..MaxClock
  /\ LET store == StoreAfter(kind, "messages", tables["messages"] \cup
                               {MessageRow("user", sends[s].message.content)})
         send == [sends[s] EXCEPT !.userStored = (kind = "ok"),
                                  !.steps = Append(@, "request-reply")]
     IN IF kind = "throws" THEN SendFails(s)
        ELSE IF UsesEngine(send)
        THEN /\ sends' = [sends EXCEPT ![s] = [send EXCEPT !.pc = "reply"]]
             /\ tables' = store
             /\ UNCHANGED <<messages, isTyping, now>>
        ELSE Reply(s, FallbackReply, t, store, send)
  /\ UNCHANGED <<conversationType, conversationId, aiEngine, session, loader,
                 ends>>

\* aiEngine.generateResponse answers
ReplyResponds(s, kind, t) ==
  /\ s \in 1..Len(sends)
  /\ sends[s].pc = "reply"
  /\ kind \in {"ok", "throws"}
  /\ t \in now..MaxClock
  /\ IF kind = "ok"
     THEN Reply(s, EngineReplyText, t, tables, sends[s])
     ELSE SendFails(s)
  /\ UNCHANGED <<conversationType, conversationId, aiEngine, session, loader,
                 ends>>

\* the insert of the reply answers
ReplyPersistResponds(s, kind) ==
  /\ s \in 1..Len(sends)
  /\ sends[s].pc = "persistReply"
  /\ kind \in RemoteKinds
  /\ IF kind = "throws" THEN SendFails(s)
     ELSE /\ sends' = [sends EXCEPT ![s].pc = "done",
                                    ![s].replyStored = (kind = "ok")]
          /\ tables' = StoreAfter(kind, "messages", tables["messages"] \cup
                                    {MessageRow("persona", sends[s].reply)})
          /\ UNCHANGED <<messages, isTyping, now>>
  /\ UNCHANGED <<conversationType, conversationId, aiEngine, session, loader,
                 ends>>

\* the end button: endConversation in the video call layout, onEndCall itself
\* in the layout of chat and voice call
EndClick(t) ==
  /\ Len(ends) < MaxEnds
  /\ t \in now..MaxClock
  /\ LET updates == conversationType = "video_call" /\ conversationId # 0
         end == [pc |-> IF updates THEN "updating" ELSE "signalled",
                 created |-> conversationId # 0,
                 known |-> updates /\ Len(messages) > 0,
                 duration_seconds |->
                   IF updates /\ Len(messages) > 0
                   THEN (t - messages[1].timestamp) \div 1000 ELSE 0,
                 steps |-> IF updates THEN <<"conversation-update">>
                           ELSE <<"onEndCall">>]
     IN /\ ends' = Append(ends, end)
        /\ now' = IF updates THEN t ELSE now
  /\ UNCHANGED <<conversationType, messages, conversationId, isTyping,
                 aiEngine, session, loader, sends, tables>>

\* endConversation: the update of the session record answers, then onEndCall
EndUpdateResponds(e, kind) ==
  /\ e \in 1..Len(ends)
  /\ ends[e].pc = "updating"
  /\ kind \in RemoteKinds
  /\ ends' = [ends EXCEPT ![e].pc = "signalled",
                          ![e].steps = Append(@, "onEndCall")]
  /\ tables' = StoreAfter(kind, "conversations",
                 {[r EXCEPT !.ended = TRUE,
                            !.duration_seconds = ends[e].duration_seconds] :
                    r \in tables["conversations"]})
  /\ UNCHANGED <<conversationType, messages, conversationId, isTyping,
                 aiEngine, session, loader, sends, now>>

conversationFrame ==
  <<personaId, uploadedFiles, isUploading, bucketError, bucketChecked,
    batches, tasks, freeProbes, completeCalls, objects, netCalls, trainVars>>

NextConversation ==
  \/ \E kind \in RemoteKinds : SessionResponds(kind) /\ UNCHANGED conversationFrame
  \/ \E kind \in {"engine", "none", "throws"} : \E t \in now..MaxClock :
       EngineLoads(kind, t) /\ UNCHANGED conversationFrame
  \/ \E kind \in {"ok", "throws"} : \E t \in now..MaxClock :
       GreetingResponds(kind, t) /\ UNCHANGED conversationFrame
  \/ \E text \in UserTexts : \E t \in now..MaxClock :
       SendMessage(text, t) /\ UNCHANGED conversationFrame
  \/ \E s \in 1..Len(sends) : \E kind \in RemoteKinds : \E t \in now..MaxClock :
       UserPersistResponds(s, kind, t) /\ UNCHANGED conversationFrame
  \/ \E s \in 1..Len(sends) : \E kind \in {"ok", "throws"} : \E t \in now..MaxClock :
       ReplyResponds(s, kind, t) /\ UNCHANGED conversationFrame
  \/ \E s \in 1..Len(sends) : \E kind \in RemoteKinds :
       ReplyPersistResponds(s, kind) /\ UNCHANGED conversationFrame
  \/ \E t \in now..MaxClock : EndClick(t) /\ UNCHANGED conversationFrame
  \/ \E e \in 1..Len(ends) : \E kind \in RemoteKinds :
       EndUpdateResponds(e, kind) /\ UNCHANGED conversationFrame

(***************************************************************************)
(* The remote store between the components                                 *)
(***************************************************************************)
\* a content row that is in the store without an upload of this session
StoredRow(n, persona, type, text, status) ==
  [row |-> n,
   persona_id |-> persona,
   content_type |-> type,
   file_url |-> PublicUrl(MakeFileId(0, NameUnderscored)),
   file_name |-> NameUnderscored,
   file_size |-> Files[1].size,
   content_text |-> text,
   processing_status |-> status]

\* what table persona_content holds when the page is opened: nothing; one
\* text row of the persona; or two audio rows and an image row of the
\* persona next to a row still processing and a row of another persona
ContentFixtures ==
  { {},
    {StoredRow(101, ValidPersonaId, "text", SampleContentText, "completed")},
    {StoredRow(102, ValidPersonaId, "audio", NoText, "completed"),
     StoredRow(103, ValidPersonaId, "audio", NoText, "completed"),
     StoredRow(104, ValidPersonaId, "image", NoText, "completed"),
     StoredRow(105, ValidPersonaId, "text", SampleContentText, "processing"),
     StoredRow(106, NilPersonaId, "text", SampleContentText, "completed")},
    {StoredRow(n, ValidPersonaId, "audio", NoText, "completed") : n \in 107..112}
      \cup {StoredRow(n, ValidPersonaId, "image", NoText, "completed") : n \in 113..123} }

\* the backend finishes processing a content row: the status the gather
\* stage filters on
BackendCompletes(name, r, text) ==
  /\ name \in {UploadTable, ContentTable}
  /\ r \in tables[name]
  /\ r.processing_status = "processing"
  /\ text \in {r.content_text, SampleContentText}
  /\ tables' = [tables EXCEPT ![name] =
                  (@ \ {r}) \cup {[r EXCEPT !.processing_status = "completed",
                                            !.content_text = text]}]
  /\ UNCHANGED <<personaId, uploadOnlyVars, netCalls, trainVars, conversationVars>>

\* a remote call logged for one batch, task or training run
CallsBy(kind, n) == {c \in netCalls : c.by = kind /\ c.n = n}

\* every uploadFile promise has settled and every timer has fired
UploadQuiet ==
  /\ \A b \in 1..Len(batches) : batches[b].pc = "done"
  /\ \A t \in 1..Len(tasks) : tasks[t].pc = "done"

(***************************************************************************)
(* Specifications                                                          *)
(***************************************************************************)
InitTraining ==
  /\ trainingSteps = InitialSteps
  /\ overallProgress = 0
  /\ isTraining = FALSE
  /\ error = NoText
  /\ pipeline = IdlePipeline
  /\ runs = 0
  /\ progressLog = <<>>
  /\ trainingCompleteCalls = 0

\* the page opened on an empty content table
InitEmptyStore == InitUpload({}) /\ InitTraining /\ InitConversation("chat")

Init ==
  \E content \in ContentFixtures :
    InitUpload(content) /\ InitTraining /\ InitConversation("chat")

\* a session of any kind over an empty store
InitSession ==
  \E type \in {"chat", "video_call", "voice_call"} :
    /\ InitUpload({}) /\ InitTraining /\ InitConversation(type)
    /\ personaId = ValidPersonaId

BackendStep ==
  \E name \in {UploadTable, ContentTable} : \E r \in tables[name] :
    \E text \in {NoText, SampleContentText} : BackendCompletes(name, r, text)

Next == NextUpload \/ NextTraining \/ BackendStep \/ NextConversation

\* the upload coordinator on its own
SpecUpload == InitEmptyStore /\ [][NextUpload]_vars

\* The storage probe on its own: files are dropped and the probes of the
\* mount effect, of the Retry button, of onDrop and of uploadFile return
\* with every run of ProbeRuns; no transfer is answered.
NextProbe ==
  \/ \E dropped \in DropInputs : Drop(dropped) /\ UNCHANGED <<trainVars, conversationVars>>
  \/ \E b \in 1..Len(batches) : \E run \in ProbeRuns :
       BatchProbeReturns(b, run) /\ UNCHANGED <<trainVars, conversationVars>>
  \/ \E t \in 1..Len(tasks) : \E run \in ProbeRuns :
       TaskProbeReturns(t, run) /\ UNCHANGED <<trainVars, conversationVars>>
  \/ RetryClick /\ UNCHANGED <<trainVars, conversationVars>>
  \/ \E run \in ProbeRuns : FreeProbeReturns(run) /\ UNCHANGED <<trainVars, conversationVars>>

SpecProbe == InitEmptyStore /\ [][NextProbe]_vars

\* the conversation session on its own
SpecConversation == InitSession /\ [][NextConversation]_vars

\* the training orchestrator and its pipeline on their own
SpecTraining == Init /\ [][NextTraining]_vars

\* The progress callback on its own: a run is started and its callback is
\* invoked with every stepId and progress, in any order.
NextCallback ==
  \/ StartTraining /\ UNCHANGED trainingFrame
  \/ \E kind \in RemoteKinds : StatusResponds(kind) /\ UNCHANGED trainingFrame
  \/ \E stepId \in CallbackStepIds : \E progress \in CallbackValues :
       ProgressCallback(stepId, progress) /\ UNCHANGED trainingFrame

SpecCallback == InitEmptyStore /\ [][NextCallback]_vars

\* one batch is uploaded, the backend processes its rows, then training runs
NextHandoff ==
  \/ Len(batches) = 0 /\ Drop(<<1>>) /\ UNCHANGED <<trainVars, conversationVars>>
  \/ \E b \in 1..Len(batches) : \E run \in UploadProbeRuns :
       BatchProbeReturns(b, run) /\ UNCHANGED <<trainVars, conversationVars>>
  \/ \E t \in 1..Len(tasks) : \E run \in UploadProbeRuns :
       TaskProbeReturns(t, run) /\ UNCHANGED <<trainVars, conversationVars>>
  \/ \E t \in 1..Len(tasks) : \E resp \in StorageResponses :
       TransferResponds(t, resp) /\ UNCHANGED <<trainVars, conversationVars>>
  \/ \E t \in 1..Len(tasks) : \E resp \in DbResponses :
       InsertResponds(t, resp) /\ UNCHANGED <<trainVars, conversationVars>>
  \/ \E t \in 1..Len(tasks) : TimerFires(t) /\ UNCHANGED <<trainVars, conversationVars>>
  \/ \E run \in UploadProbeRuns : FreeProbeReturns(run) /\ UNCHANGED <<trainVars, conversationVars>>
  \/ UploadQuiet /\ BackendStep
  \/ UploadQuiet /\ Len(batches) > 0 /\ NextTraining

SpecHandoff == InitEmptyStore /\ [][NextHandoff]_vars

Spec == Init /\ [][Next]_vars

(***************************************************************************)
(* Properties of the upload coordinator                                    *)
(***************************************************************************)
\* C1: a file over 50 MiB is rejected before any remote call is issued on its
\* behalf (no probe, no transfer, no insert), and the files of its batch that
\* are within the limit all go through uploadFile.  Stated on the batches: a
\* drop of oversized files only issues no remote call, no uploadFile call is
\* made for an oversized file, and once onDrop has passed its filter there is
\* one uploadFile call per file within the limit.
C1_OversizedRejectedBeforeAnyCall ==
  /\ \A b \in 1..Len(batches) :
        (batches[b].rejected > 0 /\ batches[b].valid = 0) => CallsBy("batch", b) = {}
  /\ \A t \in 1..Len(tasks) : ~TooLarge(Files[tasks[t].file])
  /\ \A b \in 1..Len(batches) :
        batches[b].pc # "probe" => Len(batches[b].tasks) = batches[b].valid

\* C2: isUploading is never false while an uploadFile call of an accepted
\* file is still pending, overlapping batches included.
C2_UploadingWhilePending ==
  \A t \in 1..Len(tasks) : ~Settled(tasks[t]) => isUploading

\* C6: within one batch, a failed upload marks only its own file as error
\* (with a message and progress 0), and a sibling whose own remote calls
\* succeed has its object stored and its row inserted.  Stated once the batch
\* has settled and nothing was removed from the list: the k-th entry of the
\* batch shows error exactly when the k-th uploadFile call failed.
C6_FailureStaysWithItsFile ==
  \A b \in 1..Len(batches) :
    (batches[b].pc = "done" /\ Len(uploadedFiles) = Len(tasks)) =>
      \A i \in 1..Len(batches[b].tasks) :
        LET t == batches[b].tasks[i]
            shown == EntryView(uploadedFiles[t])
        IN /\ (tasks[t].status = "error") =>
                (Truthy(tasks[t].error) /\ tasks[t].progress = 0)
           /\ (shown.status = "error") = (tasks[t].status = "error")
           /\ (tasks[t].status # "error") =>
                /\ \E o \in objects : o.path = tasks[t].id
                /\ \E r \in tables[UploadTable] : r.row = t

\* C7: every entry a drop adds to uploadedFiles leaves status uploading once
\* its remote calls have returned, whatever the clock values read for the
\* identifiers: completed with progress 100 when transfer and insert
\* succeeded, error with a message otherwise.  Stated for the state in which
\* every promise has settled and every timer has fired.
C7_NoEntryLeftUploading ==
  UploadQuiet =>
    \A k \in 1..Len(uploadedFiles) :
      LET shown == EntryView(uploadedFiles[k])
      IN \/ shown.status = "completed" /\ shown.progress = 100
         \/ shown.status = "error" /\ Truthy(shown.error)

\* C10: a failed storage probe blocks uploads.  A file whose uploadFile call
\* saw the probe fail is never transferred and never inserted; no drop is
\* accepted while bucketError is set; a probe started outside uploadFile (on
\* mount or by the Retry button) that succeeds clears bucketError, and with
\* a valid persona id the drop area accepts files again.
C10_FailedProbeBlocksUploads ==
  /\ [](\A t \in 1..Len(tasks) :
          tasks[t].probe = "failed" =>
            /\ \A c \in CallsBy("task", t) : c.op = "probe"
            /\ \A r \in tables[UploadTable] : r.row # t
            /\ tasks[t].status = "error" /\ tasks[t].url = NoText)
  /\ [][Truthy(bucketError) => Len(batches') = Len(batches)]_vars
  /\ [][(\E run \in ProbeRuns : ProbeReady(run) /\ FreeProbeReturns(run)) =>
          /\ bucketError' = NoText
          /\ isPersonaIdValid => ~DropzoneDisabled']_vars

\* C10 witness: an uploadFile call saw its probe fail, bucketError has been
\* cleared since, and a later drop was accepted and its file transferred.
C10_Witness ==
  \E t \in 1..Len(tasks) :
    /\ tasks[t].probe = "failed"
    /\ bucketError = NoText
    /\ \E u \in 1..Len(tasks) :
         tasks[u].batch > tasks[t].batch /\ tasks[u].status = "completed"

(***************************************************************************)
(* Properties of the training orchestrator                                 *)
(***************************************************************************)
LastCallback == progressLog[Len(progressLog)]

PersonaRows == {r \in tables["personas"] : r.id = personaId}

\* C3: when the pipeline call of a training run returns successfully, all five
\* stages end completed with progress 100, the persona's remote status is
\* active at 100, and onTrainingComplete has been called.
C3_SuccessCompletesAllStages ==
  pipeline.pc = "succeeded" =>
    /\ \A k \in 1..Len(trainingSteps) :
         trainingSteps[k].status = "completed" /\ trainingSteps[k].progress = 100
    /\ \A r \in PersonaRows : r.status = "active" /\ r.training_progress = 100
    /\ trainingCompleteCalls > 0

C5_OnlyCurrentStageErrors ==
  [][(pipeline.pc # "failed" /\ pipeline'.pc = "failed") =>
       /\ error' = FailedToTrainText
       /\ \A k \in 1..Len(trainingSteps') :
            (trainingSteps'[k].status = "error") <=>
              (trainingSteps'[k].id = LastCallback.step)]_vars

(***************************************************************************)
(* Properties across the components                                        *)
(***************************************************************************)
Bucket(data, type) ==
  IF type = "text" THEN data.text
  ELSE IF type = "audio" THEN data.audio
  ELSE IF type = "video" THEN data.video
  ELSE data.images

\* C8: a content record inserted by an upload for the persona is in the
\* table the gather stage selects from: whenever the select of a training
\* run returns, every record an upload of this persona inserted whose
\* processing status is completed (and, for a text record, whose text has
\* been extracted) is in the bucket of its content type.
C8_UploadedRecordReachesGather ==
  [][(pipeline.pc = "gather" /\ pipeline'.pc \notin {"gather", "failed"}) =>
       \A name \in {UploadTable, ContentTable} : \A r \in tables[name] :
         (r.row \in 1..Len(tasks) /\ r.persona_id = personaId
            /\ r.processing_status = "completed"
            /\ (r.content_type = "text" => Truthy(r.content_text)))
           => r \in Bucket(pipeline'.data, r.content_type)]_vars

\* the remote operations that carry the persona id
PersonaIdOps ==
  {"transfer", "insert", "persona-update", "content-select", "profile-save", "prompt-save"}

\* C9: every remote operation that carries the persona id is issued only
\* when the id matches the UUID pattern.
C9_PersonaIdValidated ==
  (\E c \in netCalls : c.op \in PersonaIdOps) => isValidUUID(personaId)

(***************************************************************************)
(* Further properties of the upload coordinator                            *)
(***************************************************************************)
\* C11: the probe result is cached: once a probe has completed and none is
\* in flight (bucketChecked is true), a drop and its uploads issue no further
\* probe against the object store; only the Retry button starts one.
C11_ProbeResultCached ==
  [][bucketChecked => \A c \in netCalls' \ netCalls : c.op # "probe"]_vars

\* C12: a file whose upload succeeded has caused exactly one object-store
\* write and exactly one metadata insert; a file that ended in error has no
\* row in the metadata table.  The calls that write an object are the
\* probe's test upload and the transfer.
C12_OneWriteOneInsert ==
  \A t \in 1..Len(tasks) :
    /\ (Settled(tasks[t]) /\ tasks[t].status # "error") =>
         /\ Cardinality({c \in CallsBy("task", t) : c.op \in {"probe", "transfer"}}) = 1
         /\ Cardinality({c \in CallsBy("task", t) : c.op = "insert"}) = 1
    /\ tasks[t].status = "error" => \A r \in tables[UploadTable] : r.row # t

\* C13: with no persona id, or one that fails the UUID pattern, a drop is a
\* no-op: the drop area is disabled, uploadedFiles stays empty, isUploading
\* stays false and no batch, upload or remote call exists.
C13_NoPersonaNoUpload ==
  ~(Truthy(personaId) /\ isValidUUID(personaId)) =>
    /\ DropzoneDisabled
    /\ uploadedFiles = <<>>
    /\ ~isUploading
    /\ batches = <<>> /\ tasks = <<>>
    /\ netCalls = {} /\ objects = {}
    /\ tables[UploadTable] = {}

\* C13 witness: a malformed persona id is set and the mount probe has
\* succeeded, so the persona id is all that disables the drop area
C13_Witness ==
  /\ Truthy(personaId) /\ ~isValidUUID(personaId)
  /\ bucketChecked /\ bucketError = NoText
  /\ DropzoneDisabled

(***************************************************************************)
(* Further properties of the training orchestrator                         *)
(***************************************************************************)
\* C14: after Try Again every stage is pending with progress 0 and overall
\* progress is 0, whatever the stages were, and nothing of the failed run
\* changes a stage afterwards: the stages stay so until training is started
\* again.
C14_TryAgainResets ==
  (pipeline.pc = "failed" /\ error = NoText) =>
    /\ \A k \in 1..Len(trainingSteps) :
         trainingSteps[k].status = "pending" /\ trainingSteps[k].progress = 0
    /\ overallProgress = 0

\* C14 witness: a run failed with several stages marked error and Try Again
\* was pressed
C14_Witness ==
  /\ pipeline.pc = "failed" /\ error = NoText
  /\ Len(progressLog) >= 5

SendOrder ==
  <<"append-user", "insert-user", "request-reply", "append-reply",
    "insert-reply">>

\* C16: the steps of every send occur in the order append of the user
\* message, insert of the user message, request of the reply, append of the
\* reply, insert of the reply; and the user message of a send that failed at
\* a later step is still in the transcript.
C16_SendOrderAndNoRollback ==
  \A s \in 1..Len(sends) :
    /\ sends[s].steps = SubSeq(SendOrder, 1, Len(sends[s].steps))
    /\ sends[s].pc = "failed" =>
         \E i \in 1..Len(messages) : messages[i] = sends[s].message

C18_TypingWhileWaiting ==
  isTyping <=> \E s \in 1..Len(sends) : sends[s].pc \in {"persistUser", "reply"}

\* C19: when the user ends a session that has a session record, in any kind
\* of session, the update of the session record (end time and duration) is
\* sent before onEndCall is signalled.
C19_UpdateBeforeEndCall ==
  \A e \in 1..Len(ends) :
    (ends[e].pc = "signalled" /\ ends[e].created) =>
      ends[e].steps = <<"conversation-update", "onEndCall">>

\* C20: the transcript is append-only and keeps its order: every message of
\* the list is still at its position after any step.
C20_TranscriptAppendOnly ==
  [][/\ Len(messages') >= Len(messages)
     /\ \A i \in 1..Len(messages) : messages'[i] = messages[i]]_vars

\* C21: every message of the local transcript, the greeting included, is
\* mirrored: an insert with its sender and content has been sent to the
\* remote message table.
C21_TranscriptMirrored ==
  \A i \in 1..Len(messages) :
    \E s \in 1..Len(sends) :
      \/ /\ messages[i].sender_type = "user"
         /\ messages[i].content = sends[s].message.content
         /\ \E k \in 1..Len(sends[s].steps) : sends[s].steps[k] = "insert-user"
      \/ /\ messages[i].sender_type = "persona"
         /\ messages[i].content = sends[s].reply
         /\ \E k \in 1..Len(sends[s].steps) : sends[s].steps[k] = "insert-reply"

(***************************************************************************)
(* Properties of the upload results                                        *)
(***************************************************************************)
\* C22: onUploadComplete of a settled batch receives exactly the files of
\* the batch whose transfer and insert both succeeded, and none that ended
\* in error.
C22_CompleteCallHasSucceededFiles ==
  \A k \in 1..Len(completeCalls) :
    LET call == completeCalls[k]
        ofBatch == {batches[call.batch].tasks[i] : i \in 1..Len(batches[call.batch].tasks)}
    IN {call.files[i] : i \in 1..Len(call.files)} =
         {t \in ofBatch : tasks[t].status # "error"}

\* C23: distinct files get distinct identifiers (which are also their
\* object-store paths), in uploadFile and in the list of onDrop.
C23_DistinctIds ==
  /\ \A t, u \in 1..Len(tasks) :
       tasks[t].file # tasks[u].file => tasks[t].id # tasks[u].id
  /\ \A k, l \in 1..Len(uploadedFiles) :
       uploadedFiles[k].file # uploadedFiles[l].file =>
         uploadedFiles[k].id # uploadedFiles[l].id

(***************************************************************************)
(* Properties of the pipeline's stages                                     *)
(***************************************************************************)
\* C24: a failure of a remote call of stage 5 or 6 (the completion throws,
\* an update throws or returns an error result) makes the pipeline call fail
\* and the orchestrator report the training error.
C24_LateFailuresAreFatal ==
  [][(\/ ProfileResponds("throws")
      \/ SaveResponds("error") \/ SaveResponds("throws")
      \/ OptimizeResponds("error") \/ OptimizeResponds("throws")) =>
       pipeline'.pc = "failed" /\ error' = FailedToTrainText]_vars

\* C25: when the orchestrator has reported a training error, the persona's
\* remote status is not active.
C25_ErrorMeansNotActive ==
  (pipeline.pc = "failed" /\ Truthy(error)) =>
    \A r \in PersonaRows : r.status # "active"

\* the rows a run has gathered
Gathered ==
  pipeline.data.text \cup pipeline.data.audio \cup pipeline.data.video
    \cup pipeline.data.images

\* C27: every record the gather stage hands to the analysis stages has
\* processing status completed and the persona of the pipeline; a record
\* with status processing is in no bucket.
C27_GatherFiltersCompleted ==
  \A r \in Gathered :
    r.processing_status = "completed" /\ r.persona_id = personaId

\* C27 witness: a run has gathered rows while the table holds a row of the
\* same persona that is still processing and a row of another persona
C27_Witness ==
  /\ Gathered # {}
  /\ \E r \in tables[ContentTable] :
       r.persona_id = personaId /\ r.processing_status = "processing"
  /\ \E r \in tables[ContentTable] : r.persona_id # personaId

\* C29: a transcription that fails for one audio file, or a completion that
\* fails for one image, does not fail the pipeline call: the stage goes on
\* with its next item, or after the last item the pipeline with what follows
\* (the completion over the transcriptions, or the next stage); and a stage
\* attempts at most five audio files and ten images.
C29_ItemFailuresAbsorbed ==
  /\ [](/\ pipeline.pc = "audio" => pipeline.todo <= MaxAudioFiles
        /\ pipeline.pc = "visual" => pipeline.todo <= MaxImages)
  /\ [][(TranscriptionResponds("throws") \/ VisionResponds("throws")) =>
          /\ pipeline'.pc # "failed" /\ error' = NoText /\ isTraining'
          /\ IF pipeline.todo > 1
             THEN pipeline'.pc = pipeline.pc /\ pipeline'.todo = pipeline.todo - 1
             ELSE pipeline'.pc \in {"speech", "visual", "profile"}]_vars

\* C29 witness: a run over six audio files and eleven images went on to the
\* profile synthesis although a transcription and an image completion failed
C29_Witness ==
  /\ pipeline.pc \in {"profile", "save", "optimize", "succeeded"}
  /\ Cardinality(pipeline.data.audio) > MaxAudioFiles
  /\ Cardinality(pipeline.data.images) > MaxImages
  /\ pipeline.transcriptions < MaxAudioFiles
  /\ pipeline.expressions < MaxImages

\* the progress callbacks of a successful run, lines 41-64
CallbackSequence ==
  <<Callback("content-analysis", 10), Callback("content-analysis", 30),
    Callback("voice-modeling", 50), Callback("personality-extraction", 70),
    Callback("conversation-training", 85), Callback("final-optimization", 95),
    Callback("final-optimization", 100)>>

\* C30: the stages run one after the other: the callbacks of a run are a
\* prefix of the fixed sequence, the stage that awaits a remote call is the
\* one the last callback announced, and the whole sequence has been
\* delivered exactly when the run has succeeded.
C30_StagesSequential ==
  /\ progressLog = SubSeq(CallbackSequence, 1, Len(progressLog))
  /\ (progressLog = CallbackSequence) <=> (pipeline.pc = "succeeded")
  /\ pipeline.pc \in {"idle", "status"} => Len(progressLog) = 0
  /\ pipeline.pc = "gather" => Len(progressLog) = 1
  /\ pipeline.pc = "text" => Len(progressLog) = 2
  /\ pipeline.pc \in {"audio", "speech"} => Len(progressLog) = 3
  /\ pipeline.pc = "visual" => Len(progressLog) = 4
  /\ pipeline.pc \in {"profile", "save"} => Len(progressLog) = 5
  /\ pipeline.pc = "optimize" => Len(progressLog) = 6

\* C30 witness: a run has succeeded and delivered the whole sequence
C30_Witness ==
  /\ pipeline.pc = "succeeded"
  /\ progressLog = CallbackSequence
  /\ Gathered # {}

(***************************************************************************)
(* Properties of the progress callback and of the storage probe            *)
(***************************************************************************)
\* C26: an invocation (stepId, progress) of the progress callback sets the
\* stage whose id is stepId to completed when progress is 100 and to
\* processing otherwise, with the reported progress; every other stage keeps
\* its status and progress, and an unknown stepId changes no stage.
C26_CallbackTouchesOneStage ==
  [][\A stepId \in CallbackStepIds : \A progress \in CallbackValues :
       ProgressCallback(stepId, progress) =>
         /\ Len(trainingSteps') = Len(trainingSteps)
         /\ \A k \in 1..Len(trainingSteps) :
              IF trainingSteps[k].id = stepId
              THEN /\ trainingSteps'[k].id = stepId
                   /\ trainingSteps'[k].status =
                        (IF progress = 100 THEN "completed" ELSE "processing")
                   /\ trainingSteps'[k].progress = progress
              ELSE trainingSteps'[k] = trainingSteps[k]
         /\ (\A k \in 1..Len(trainingSteps) : trainingSteps[k].id # stepId)
              => trainingSteps' = trainingSteps]_vars

\* callbacks have left a later stage completed, the stage after it in
\* processing and the first and last stages untouched since the run began
C26_Witness ==
  /\ pipeline.pc = "gather"
  /\ trainingSteps[1].status = "processing" /\ trainingSteps[1].progress = 10
  /\ trainingSteps[3].status = "completed" /\ trainingSteps[3].progress = 100
  /\ trainingSteps[4].status = "processing" /\ trainingSteps[4].progress = 50
  /\ trainingSteps[5].status = "pending"

\* a probe returns with this run, in any of its three callers
ProbeReturns(run) ==
  \/ FreeProbeReturns(run)
  \/ \E b \in 1..Len(batches) : BatchProbeReturns(b, run)
  \/ \E t \in 1..Len(tasks) : TaskProbeReturns(t, run)

\* the continuation of onDrop has started the probe of an uploadFile call
ProbeStarted ==
  \E t \in (Len(tasks) + 1)..Len(tasks') : tasks'[t].pc = "probe"

\* the message names the generic access error
IsAccessError(text) ==
  /\ Len(text) >= Len(StorageAccessPrefix)
  /\ SubSeq(text, 1, Len(StorageAccessPrefix)) = StorageAccessPrefix

\* C28 as stated: a probe that fails leaves one of three messages in
\* bucketError (permission denied, bucket not found, generic access error),
\* a probe that succeeds clears bucketError, and the probe's return leaves
\* bucketChecked true.
C28_ThreeCauses ==
  [][\A run \in ProbeRuns : ProbeReturns(run) =>
       /\ ~ProbeReady(run) =>
            \/ bucketError' = PermissionDeniedText
            \/ bucketError' = BucketNotFoundText
            \/ IsAccessError(bucketError')
       /\ ProbeReady(run) => bucketError' = NoText
       /\ bucketChecked' \/ ProbeStarted]_vars

\* C28: a probe whose test upload answers with an error result leaves the
\* permission-denied message when the error's message contains 'permission
\* denied', else the bucket-not-found message when it contains 'not found',
\* else the generic access error with the message appended; a probe whose
\* test upload or remove throws leaves a fourth message, the bucket-test
\* error; the four messages differ; a probe that succeeds clears
\* bucketError; and the probe's return leaves bucketChecked true unless the
\* same continuation starts the next probe.
C28_FourCauses ==
  [][\A run \in ProbeRuns : ProbeReturns(run) =>
       /\ run.upload.kind = "error" =>
            IF Includes(run.upload.message, NeedlePermissionDenied)
            THEN bucketError' = PermissionDeniedText
            ELSE IF Includes(run.upload.message, NeedleNotFound)
            THEN bucketError' = BucketNotFoundText
            ELSE /\ bucketError' = StorageAccessPrefix \o run.upload.message
                 /\ bucketError' \notin {PermissionDeniedText, BucketNotFoundText}
       /\ (run.upload.kind = "throws" \/ run.remove.kind = "throws") =>
            /\ bucketError' = BucketTestErrorText
            /\ bucketError' \notin {PermissionDeniedText, BucketNotFoundText}
            /\ ~IsAccessError(bucketError')
       /\ ~ProbeReady(run) => Truthy(bucketError')
       /\ ProbeReady(run) => bucketError' = NoText
       /\ PermissionDeniedText # BucketNotFoundText
       /\ bucketChecked' \/ ProbeStarted]_vars

\* a probe whose test upload or remove threw has returned: bucketError holds
\* the bucket-test error and bucketChecked is true
C28_Witness ==
  /\ bucketError = BucketTestErrorText
  /\ bucketChecked
  /\ freeProbes = 0

(***************************************************************************)
(* Properties of the training component's runs                             *)
(***************************************************************************)
\* startTraining has been called and its pipeline call has not settled
TrainingPending == pipeline.pc \notin {"idle", "succeeded", "failed"}

\* C31: isTraining is true exactly from the start action until the pipeline
\* call settles; training starts only while isTraining is false, overall
\* progress is 0 and no run is pending, so at most one pipeline call is in
\* flight; and Try Again after a failed run offers the start button again.
C31_OneRunAtATime ==
  /\ [](TrainingPending <=> isTraining)
  /\ [][runs' # runs =>
          /\ ~isTraining /\ overallProgress = 0 /\ ~TrainingPending
          /\ isTraining' /\ pipeline'.pc = "status"]_vars
  /\ [][(pipeline.pc = "failed" /\ TryAgain) =>
          /\ ~isTraining' /\ overallProgress' = 0 /\ ~TrainingPending'
          /\ error' = NoText]_vars

\* a run failed, Try Again was pressed and the second run is pending
C31_Witness ==
  /\ runs = 2
  /\ TrainingPending
  /\ isTraining
  /\ pipeline.pc \notin {"status", "gather"}

(***************************************************************************)
(* Properties of the uploaded-files list                                   *)
(***************************************************************************)
\* C32: removeFile(id) takes the entry with that id out of uploadedFiles and
\* leaves every other entry as it was, in order; it cancels nothing (tasks,
\* remote calls, stored objects and rows are untouched); and no later step
\* of an upload puts an entry back: entries are added by a drop only.
C32_RemoveTakesOneEntry ==
  /\ [][\A k \in 1..Len(uploadedFiles) : RemoveFile(k) =>
          /\ uploadedFiles' =
               [i \in 1..(Len(uploadedFiles) - 1) |->
                  IF i < k THEN uploadedFiles[i] ELSE uploadedFiles[i + 1]]
          /\ UNCHANGED <<tasks, batches, netCalls, objects, tables>>]_vars
  /\ [][(\E i \in 1..Len(uploadedFiles') :
           \A j \in 1..Len(uploadedFiles) : uploadedFiles'[i].id # uploadedFiles[j].id)
          => Len(tasks') > Len(tasks)]_vars

\* the status and the progress, url and error of a list entry agree
EntryAgrees(v) ==
  /\ v.status = "uploading" => v.progress = 0 /\ v.url = NoText
  /\ v.status = "processing" => v.progress = 50 /\ v.url # NoText
  /\ v.status = "completed" => v.progress = 100
  /\ v.status = "error" => v.progress = 0 /\ v.error # NoText

\* C33: every entry of uploadedFiles has a status in agreement with its
\* progress, url and error message (uploading: 0 and no url; processing: 50
\* and a url; completed: 100; error: 0 and a message), and an entry that is
\* completed or in error keeps that status in every later step that leaves
\* it in the list.
C33_StatusAgreesAndTerminal ==
  /\ [](\A k \in 1..Len(uploadedFiles) : EntryAgrees(EntryView(uploadedFiles[k])))
  /\ [][Len(uploadedFiles') >= Len(uploadedFiles) =>
          \A k \in 1..Len(uploadedFiles) :
            EntryView(uploadedFiles[k]).status \in {"completed", "error"} =>
              EntryView(uploadedFiles[k])'.status = EntryView(uploadedFiles[k]).status]_vars

(***************************************************************************)
(* Properties of a failed send                                             *)
(***************************************************************************)
\* C34: when the insert of the user message, the generation of the reply or
\* the insert of the reply fails during a send (an error result or a throw),
\* the typing indicator is cleared by that send, the transcript keeps every
\* message it had, and the send issues no further remote call.
C34_SendFailureStops ==
  [][\A s \in 1..Len(sends) : \A kind \in {"error", "throws"} : \A t \in 0..MaxClock :
       (\/ UserPersistResponds(s, kind, t)
        \/ ReplyResponds(s, kind, t)
        \/ ReplyPersistResponds(s, kind)) =>
         /\ \/ ~isTyping'
            \/ \E o \in 1..Len(sends') : o # s /\ sends'[o].pc \in {"persistUser", "reply"}
         /\ messages' = messages
         /\ sends'[s].pc \in {"failed", "done"}
         /\ sends'[s].steps = sends[s].steps]_vars

(***************************************************************************)
(* Properties of the stages' progress                                      *)
(***************************************************************************)
\* C35: within a training run the progress of a stage that is and stays in
\* processing never decreases; a stage is completed only with progress 100;
\* and the progress of every stage is between 0 and 100.
C35_ProgressMonotone ==
  /\ [](\A k \in 1..Len(trainingSteps) :
          /\ trainingSteps[k].progress \in 0..100
          /\ trainingSteps[k].status = "completed" => trainingSteps[k].progress = 100)
  /\ [][runs' = runs =>
          \A k \in 1..Len(trainingSteps) :
            (trainingSteps[k].status = "processing" /\ trainingSteps'[k].status = "processing")
              => trainingSteps'[k].progress >= trainingSteps[k].progress]_vars

\* a run has raised the first stage from 10 to 30 and completed the last one
C35_Witness ==
  /\ pipeline.pc = "succeeded"
  /\ trainingSteps[1].status = "processing" /\ trainingSteps[1].progress = 30
  /\ trainingSteps[5].status = "completed" /\ trainingSteps[5].progress = 100

(***************************************************************************)
(* Properties of a run over text content only                              *)
(***************************************************************************)
\* the persona's content records are all of type text, and one of them is
\* completed and carries its text
TextOnlyPersona ==
  LET rows == {r \in tables[ContentTable] : r.persona_id = personaId}
  IN /\ \A r \in rows : r.content_type = "text"
     /\ \E r \in rows : r.processing_status = "completed" /\ Truthy(r.content_text)

\* C36: in a run over a persona with text content only, no transcription, no
\* completion over transcriptions and no vision completion is ever issued,
\* the audio and image analyses stay absent, and the run goes from the
\* gather to the text analysis, the profile synthesis, the save of the
\* profile and the save of the prompt, and succeeds when each call succeeds.
C36_TextOnlyRun ==
  /\ [](TextOnlyPersona =>
          /\ pipeline.pc \notin {"audio", "speech", "visual"}
          /\ \A c \in netCalls :
               c.op \notin {"transcription", "speech-completion", "vision-completion"}
          /\ pipeline.voiceAnalysis = "null"
          /\ pipeline.transcriptions = 0 /\ pipeline.expressions = 0
          /\ pipeline.todo = 0)
  /\ [][TextOnlyPersona =>
          /\ GatherResponds("ok") => pipeline'.pc = "text"
          /\ TextResponds("json") => pipeline'.pc = "profile"
          /\ ProfileResponds("json") => pipeline'.pc = "save"
          /\ SaveResponds("ok") => pipeline'.pc = "optimize"
          /\ OptimizeResponds("ok") =>
               pipeline'.pc = "succeeded" /\ error' = NoText /\ ~isTraining']_vars

\* a run over text content only has succeeded with a parsed text analysis
C36_Witness ==
  /\ TextOnlyPersona
  /\ pipeline.pc = "succeeded"
  /\ pipeline.textAnalysis = "json"
  /\ \E c \in netCalls : c.op = "text-completion"

(***************************************************************************)
(* Properties of a repeated probe                                          *)
(***************************************************************************)
\* C37: the outcome of a probe depends on what the object store answers and
\* on nothing the previous probe left, so a probe repeated against the same
\* answers gives the same result and the same bucketError; and a probe that
\* succeeds adds no object to the store.
C37_ProbeRepeatable ==
  [][\A run \in ProbeRuns : ProbeReturns(run) =>
       /\ bucketError' = ProbeError(run)
       /\ ProbeReady(run) = (bucketError' = NoText)
       /\ ProbeReady(run) => objects' \subseteq objects]_vars

====
